---- MODULE Spec2Model ----
(***************************************************************************)
(* Sensor-source selection of WebMonitor-for-WinServer (src/LHML.py):      *)
(* SensorSelector (candidate choice, persisted selection file, pinned      *)
(* reads) and the part of Metrics that drives it.                          *)
(*                                                                         *)
(* Conventions                                                             *)
(*  - Optional[x]: None is the empty tuple, a present value x is <<x>>.    *)
(*  - A float is an integer number of hundredths (0.5 is 50, 120.0 is      *)
(*    12000, 20000.0 is 2000000); a WMI thermal zone reports tenths of a   *)
(*    Kelvin, so raw/10 - 273.15 is raw*10 - 27315 hundredths.             *)
(*  - A str is a tuple of one-character strings, so that lower(), "in",    *)
(*    strip(), isdigit(), split() and int() are computed, not assumed.     *)
(***************************************************************************)
EXTENDS Integers, Sequences, FiniteSets, TLC

VARIABLES
    \* ---- the process and its selector (main specification) ----
    pc,          \* position of the process: "boot", "temp_prompt", "fan_prompt", "ready"
    file,        \* the persisted selection file at config_path
    sel_temp,    \* SensorSelector.sel_temp : Optional[Dict]
    sel_fan,     \* SensorSelector.sel_fan  : Optional[Dict]
    env,         \* what the process start found: wmi usable, LibreHMReader.ok
    temps,       \* local of ensure_selection: the temperature candidates listed
    fans,        \* local of ensure_selection: the fan candidates listed
    trace,       \* what this process has done so far (observations only)
    tick,        \* what the last cpu_stats call saw and returned
    written,     \* the pair of selections the file was last written from, if any
    \* ---- two selectors handed one candidate list (AutoPicker specification) ----
    pk_kind,     \* "temp" or "fan"
    pk_list,     \* the candidate list
    pk_self,     \* the two selectors' states
    pk_called,   \* which of the two selectors have run the picker
    pk_res,      \* their results
    \* ---- one reader called on one backend snapshot (reader specification) ----
    rq_kind,     \* which family of inputs: "stats", "gpu", "nic", "storage", "freq", "enum", ...
    rq_self,     \* the selector / reader state the call sees
    rq_b,        \* the backend snapshot
    rq_op,       \* the operation called, "none" before the call
    rq_out,      \* what it returned
    \* ---- the driver loop of main() (loop specification) ----
    lp_env,      \* fixed for the process: LibreHMReader.ok, a database is attached
    lp_n,        \* the number of ticks completed
    lp_prev,     \* when Metrics.prev_net, prev_disks and prev_time were last set
    lp_last      \* what the last tick did

vars == <<pc, file, sel_temp, sel_fan, env, temps, fans, trace, tick, written,
          pk_kind, pk_list, pk_self, pk_called, pk_res,
          rq_kind, rq_self, rq_b, rq_op, rq_out,
          lp_env, lp_n, lp_prev, lp_last>>
mainVars == <<pc, file, sel_temp, sel_fan, env, temps, fans, trace, tick, written>>
pickVars == <<pk_kind, pk_list, pk_self, pk_called, pk_res>>
readVars == <<rq_kind, rq_self, rq_b, rq_op, rq_out>>
loopVars == <<lp_env, lp_n, lp_prev, lp_last>>

----------------------------------------------------------------------------
(* Bounds of the model *)

\* longest candidate list handed to the AutoPicker specification
MaxCands == 2

\* longest line an operator types at a prompt
MaxLineLen == 2

\* the number of ticks of the driver loop that are followed
MaxTicks == 3

\* --interval, seconds (src/app_config.py)
DEFAULT_INTERVAL == 5

\* most top-level hardware nodes of a backend handed to the reader specification
MaxNodes == 2

\* the number of runs of like processes in a process table
MaxRuns == 2

\* the thresholds of Metrics.process_status: a count above WarnAbove is
\* flagged, a count above AbortAbove ends the scan
WarnAbove == 64
AbortAbove == 128

----------------------------------------------------------------------------
(* Python values *)

None == <<>>
Some(x) == <<x>>
IsNone(o) == Len(o) = 0
Val(o) == o[1]

\* str.lower() on the characters the model uses (ASCII letters)
LowerMap ==
    [A |-> "a", B |-> "b", C |-> "c", D |-> "d", E |-> "e", F |-> "f", G |-> "g",
     H |-> "h", I |-> "i", J |-> "j", K |-> "k", L |-> "l", M |-> "m", N |-> "n",
     O |-> "o", P |-> "p", Q |-> "q", R |-> "r", S |-> "s", T |-> "t", U |-> "u",
     V |-> "v", W |-> "w", X |-> "x", Y |-> "y", Z |-> "z"]

lower(s) == [i \in 1..Len(s) |-> IF s[i] \in DOMAIN LowerMap THEN LowerMap[s[i]] ELSE s[i]]

\* Python's  k in s  for two str
Contains(s, k) == \E i \in 0..(Len(s) - Len(k)) : SubSeq(s, i + 1, i + Len(k)) = k

\* any(k in name for k in keywords)
AnyKeyword(name, keywords) == \E i \in 1..Len(keywords) : Contains(name, keywords[i])

\* max(seq, key=lambda x: float(x["value"])): the first element of largest value
MaxByValue(seq) ==
    LET i == CHOOSE i \in 1..Len(seq) :
                 /\ \A j \in 1..Len(seq) : Val(seq[j].value) <= Val(seq[i].value)
                 /\ \A j \in 1..(i - 1) : Val(seq[j].value) < Val(seq[i].value)
    IN seq[i]

----------------------------------------------------------------------------
(* AutoPicker: SensorSelector._auto_pick_temp / _auto_pick_fan *)

cpu_keywords == << <<"p","a","c","k","a","g","e">>, <<"t","c","t","l">>,
                   <<"t","d","i","e">>, <<"c","p","u">> >>

fan_keywords == << <<"c","p","u">>, <<"a","i","o">>, <<"p","u","m","p">> >>

\* a plausible slip: the lower end of the interval taken as plausible
okv_temp_closed(v) == IF IsNone(v) THEN FALSE ELSE 50 <= Val(v) /\ Val(v) < 12000

\* okv of _auto_pick_temp: float(None) raises, which gives False
okv_temp(v) == IF IsNone(v) THEN FALSE ELSE 50 < Val(v) /\ Val(v) < 12000

\* okv of _auto_pick_fan
okv_fan(v) == IF IsNone(v) THEN FALSE ELSE 100 <= Val(v) /\ Val(v) < 2000000

\* the list comprehensions of _auto_pick_temp
cpu_like(ts) ==
    LET Keep(t) == /\ t.type = "LHM"
                   /\ AnyKeyword(lower(t.name), cpu_keywords)
                   /\ okv_temp(t.value)
    IN SelectSeq(ts, Keep)

\* a plausible slip: the type test of the second tier left out
acpi_any_type(ts) ==
    LET Keep(t) == okv_temp(t.value)
    IN SelectSeq(ts, Keep)

acpi(ts) ==
    LET Keep(t) == t.type = "WMI_ACPI" /\ okv_temp(t.value)
    IN SelectSeq(ts, Keep)

\* a plausible slip: the two tiers tried in the wrong order
_auto_pick_temp_acpi_first(self, ts) ==
    IF acpi(ts) # <<>> THEN Some(MaxByValue(acpi(ts)))
    ELSE IF cpu_like(ts) # <<>> THEN Some(MaxByValue(cpu_like(ts)))
    ELSE None

\* a plausible slip: a selector that has pinned a source hands it out again
_auto_pick_temp_sticky(self, ts) ==
    IF ~IsNone(self.sel_temp) THEN self.sel_temp
    ELSE IF cpu_like(ts) # <<>> THEN Some(MaxByValue(cpu_like(ts)))
    ELSE IF acpi(ts) # <<>> THEN Some(MaxByValue(acpi(ts)))
    ELSE None

_auto_pick_temp(self, ts) ==
    IF cpu_like(ts) # <<>> THEN Some(MaxByValue(cpu_like(ts)))
    ELSE IF acpi(ts) # <<>> THEN Some(MaxByValue(acpi(ts)))
    ELSE None

\* the list comprehensions of _auto_pick_fan
pri(fs) ==
    LET Keep(f) == /\ f.type = "LHM"
                   /\ AnyKeyword(lower(f.name), fan_keywords)
                   /\ okv_fan(f.value)
    IN SelectSeq(fs, Keep)

lhm_any(fs) ==
    LET Keep(f) == f.type = "LHM" /\ okv_fan(f.value)
    IN SelectSeq(fs, Keep)

wmi_fans(fs) ==
    LET Keep(f) == f.type = "WMI_FAN" /\ okv_fan(f.value)
    IN SelectSeq(fs, Keep)

\* a plausible slip: all plausible candidates pooled before taking the maximum
_auto_pick_fan_pooled(self, fs) ==
    IF pri(fs) # <<>> THEN Some(MaxByValue(pri(fs)))
    ELSE IF lhm_any(fs) \o wmi_fans(fs) # <<>> THEN Some(MaxByValue(lhm_any(fs) \o wmi_fans(fs)))
    ELSE None

_auto_pick_fan(self, fs) ==
    IF pri(fs) # <<>> THEN Some(MaxByValue(pri(fs)))
    ELSE IF lhm_any(fs) # <<>> THEN Some(MaxByValue(lhm_any(fs)))
    ELSE IF wmi_fans(fs) # <<>> THEN Some(MaxByValue(wmi_fans(fs)))
    ELSE None

----------------------------------------------------------------------------
(* Decimal text of an index: f"{i}" and int(...) *)

Digits == <<"0", "1", "2", "3", "4", "5", "6", "7", "8", "9">>

RECURSIVE str_int(_)
str_int(n) == IF n < 10 THEN <<Digits[n + 1]>>
              ELSE str_int(n \div 10) \o <<Digits[(n % 10) + 1]>>

\* the characters an operator types; "sup2" stands for U+00B2 (superscript
\* two), a character for which str.isdigit() is True and int() raises
AsciiDigits == {Digits[i] : i \in 1..Len(Digits)}
DigitLike == AsciiDigits \cup {"sup2"}

\* str.strip()
RECURSIVE strip(_)
strip(s) == IF s = <<>> THEN s
            ELSE IF Head(s) = " " THEN strip(Tail(s))
            ELSE IF s[Len(s)] = " " THEN strip(SubSeq(s, 1, Len(s) - 1))
            ELSE s

\* str.isdigit()
isdigit(s) == s # <<>> /\ \A i \in 1..Len(s) : s[i] \in DigitLike

\* int(s) raises ValueError unless s is a decimal numeral
int_raises(s) == s = <<>> \/ \E i \in 1..Len(s) : s[i] \notin AsciiDigits

RECURSIVE int_str(_)
int_str(s) == IF s = <<>> THEN 0
              ELSE 10 * int_str(SubSeq(s, 1, Len(s) - 1))
                   + (CHOOSE d \in 0..9 : Digits[d + 1] = s[Len(s)])

\* s.split(":")[-1]
RECURSIVE last_field(_)
last_field(s) == IF s = <<>> THEN s
                 ELSE IF s[Len(s)] = ":" THEN <<>>
                 ELSE last_field(SubSeq(s, 1, Len(s) - 1)) \o <<s[Len(s)]>>

----------------------------------------------------------------------------
(* The persisted selection file: JSON text as a tree of tagged values *)

JNull == <<"null">>
JNum(n) == <<"num", n>>
JStr(x) == <<"str", x>>
JObj(keys, vals) == <<"obj", keys, vals>>
JArr(items) == <<"arr", items>>

\* a text json.load cannot parse (also what a failed write leaves behind)
Garbage == <<"garbage">>

\* json.dump of a Selection dict or None
dump_selection(sel) ==
    IF IsNone(sel) THEN JNull
    ELSE JObj(<<"type", "id", "name", "value">>,
              << JStr(Val(sel).type), JStr(Val(sel).id), JStr(Val(sel).name),
                 IF IsNone(Val(sel).value) THEN JNull ELSE JNum(Val(Val(sel).value)) >>)

\* json.dump(cfg) of _save_config
json_dump(st, sf, created_at) ==
    JObj(<<"temp_source", "fan_source", "created_at">>,
         <<dump_selection(st), dump_selection(sf), JStr(created_at)>>)

\* d.get(key) on a parsed JSON object: its value, or null when the key is missing
json_get(obj, key) ==
    IF \E i \in 1..Len(obj[2]) : obj[2][i] = key
    THEN obj[3][CHOOSE i \in 1..Len(obj[2]) : obj[2][i] = key]
    ELSE JNull

\* the Python value of a parsed Selection:  cfg.get(key) or None
load_selection(j) ==
    IF j[1] # "obj" THEN None
    ELSE IF Len(j[2]) = 0 THEN None
    ELSE Some([type  |-> json_get(j, "type")[2],
               id    |-> json_get(j, "id")[2],
               name  |-> json_get(j, "name")[2],
               value |-> IF json_get(j, "value")[1] = "num"
                         THEN Some(json_get(j, "value")[2]) ELSE None])

----------------------------------------------------------------------------
(* The backends as one read finds them: the native hardware tree and the
   WMI records. Each operation that touches the backend is handed the
   snapshot b it finds at that moment. *)

Sep == <<" ", "|", " ">>

T_Temperature == "Temperature"
T_Fan == "Fan"

\* a sensor; raises: reading its attributes raises
Sensor(type, ident, name, value) ==
    [SensorType |-> type, Identifier |-> ident, Name |-> name, Value |-> value,
     raises |-> FALSE]

\* a hardware node; sensors_raise: iterating hw.Sensors raises;
\* subs_raise: iterating hw.SubHardware raises
Node(type, name, sensors, sub) ==
    [HardwareType |-> type, Name |-> name, Sensors |-> sensors, SubHardware |-> sub,
     sensors_raise |-> FALSE, subs_raise |-> FALSE]

ID_CpuTemp == <<"/","c","/","0">>
ID_SioFan == <<"/","l","/","0">>

\* what one sensor may show: not in the tree, or there with its Value
Gone == [there |-> FALSE, Value |-> None]
There(v) == [there |-> TRUE, Value |-> v]
TempStates == {Gone, There(None), There(Some(5500))}
FanStates == {Gone, There(None), There(Some(120000))}

\* Computer.Hardware: a Cpu node with a package temperature sensor, and a
\* Motherboard node whose SuperIO sub-hardware carries a fan sensor
Hardware(ct, sf) ==
    << Node(<<"C","p","u">>, <<"X">>,
            IF ~ct.there THEN <<>>
            ELSE <<Sensor(T_Temperature, ID_CpuTemp, <<"T","c","t","l">>, ct.Value)>>,
            <<>>),
       Node(<<"M","o","t","h","e","r","b","o","a","r","d">>, <<"B">>, <<>>,
            << Node(<<"S","u","p","e","r","I","O">>, <<"N">>,
                    IF ~sf.there THEN <<>>
                    ELSE <<Sensor(T_Fan, ID_SioFan, <<"F","a","n","1">>, sf.Value)>>,
                    <<>>) >>) >>

\* MSAcpi_ThermalZoneTemperature records (tenths of a Kelvin)
ZoneLists == { <<>>,
               <<[CurrentTemperature |-> None, Temperature |-> Some(3232),
                  InstanceName |-> <<"T","Z">>]>> }

\* Win32_Fan records (RPM)
WmiFanLists == { <<>>,
                 <<[Speed |-> None, DesiredSpeed |-> Some(800),
                    Name |-> <<"F">>, DeviceID |-> <<"D">>]>> }

\* one snapshot; hardware_raises: iterating Computer.Hardware raises;
\* zones_raise / wfans_raise: the WMI query raises
Backend(hardware, zones, wfans) ==
    [Hardware |-> hardware, hardware_raises |-> FALSE,
     zones |-> zones, zones_raise |-> FALSE,
     wfans |-> wfans, wfans_raise |-> FALSE]

Backends ==
    { Backend(Hardware(ct, sf), z, w) :
        ct \in TempStates, sf \in FanStates, z \in ZoneLists, w \in WmiFanLists }

\* float(t) / 10.0 - 273.15
celsius(t) == t * 10 - 27315

\* getattr(it, "CurrentTemperature", None), else getattr(it, "Temperature", None)
zone_raw(it) == IF ~IsNone(it.CurrentTemperature) THEN it.CurrentTemperature ELSE it.Temperature

\* getattr(it, "Speed", None), else getattr(it, "DesiredSpeed", None)
fan_raw(it) == IF ~IsNone(it.Speed) THEN it.Speed ELSE it.DesiredSpeed

----------------------------------------------------------------------------
(* CandidateEnumerator *)

\* walk(hw) of _iter_lhm_sensors_recursive: the node, then its sub-hardware
RECURSIVE walk(_)
walk(hw) ==
    LET RECURSIVE subs(_)
        subs(i) == IF i > Len(hw.SubHardware) THEN <<>>
                   ELSE walk(hw.SubHardware[i]) \o subs(i + 1)
    IN <<hw>> \o (IF hw.subs_raise THEN <<>> ELSE subs(1))

\* the (node, sensor) pairs _iter_lhm_sensors_recursive yields
_iter_lhm_sensors_recursive(self, b) ==
    IF ~self.lhm_ok \/ b.hardware_raises THEN <<>>
    ELSE LET RECURSIVE roots(_)
             roots(i) == IF i > Len(b.Hardware) THEN <<>>
                         ELSE walk(b.Hardware[i]) \o roots(i + 1)
             nodes == roots(1)
             RECURSIVE pairs(_, _)
             pairs(n, k) ==
                 IF n > Len(nodes) THEN <<>>
                 ELSE IF nodes[n].sensors_raise THEN pairs(n + 1, 1)
                 ELSE IF k > Len(nodes[n].Sensors) THEN pairs(n + 1, 1)
                 ELSE <<[hw |-> nodes[n], s |-> nodes[n].Sensors[k]]>> \o pairs(n, k + 1)
         IN pairs(1, 1)

\* a plausible slip: sensors without a value are left out of the list
lhm_candidates_valued(self, b, type) ==
    LET all == _iter_lhm_sensors_recursive(self, b)
        Keep(p) == ~p.s.raises /\ p.s.SensorType = type /\ ~IsNone(p.s.Value)
        kept == SelectSeq(all, Keep)
    IN [i \in 1..Len(kept) |->
          [type  |-> "LHM",
           id    |-> kept[i].s.Identifier,
           name  |-> <<"L","H","M">> \o Sep \o kept[i].hw.HardwareType \o Sep
                     \o kept[i].hw.Name \o Sep \o kept[i].s.Name,
           value |-> kept[i].s.Value]]

\* the LHM candidates of one sensor type
lhm_candidates(self, b, type) ==
    LET all == _iter_lhm_sensors_recursive(self, b)
        Keep(p) == ~p.s.raises /\ p.s.SensorType = type
        kept == SelectSeq(all, Keep)
    IN [i \in 1..Len(kept) |->
          [type  |-> "LHM",
           id    |-> kept[i].s.Identifier,
           name  |-> <<"L","H","M">> \o Sep \o kept[i].hw.HardwareType \o Sep
                     \o kept[i].hw.Name \o Sep \o kept[i].s.Name,
           value |-> kept[i].s.Value]]

\* the outcome of a call or of a block: it raised, or it gave val
Ok(v) == [exc |-> FALSE, val |-> v]
Exc == [exc |-> TRUE, val |-> <<>>]

\* try: <block o>  except Exception: <the block's result is dflt>
Try(o, dflt) == IF o.exc THEN Ok(dflt) ELSE o

\* lines 696-709: the thermal zone query and one candidate per record
wmi_temp_candidates(self, b) ==
    IF b.zones_raise THEN Exc
    ELSE Ok([i \in 1..Len(b.zones) |->
                [type  |-> "WMI_ACPI",
                 id    |-> <<"W","M","I",":","A","C","P","I",":">> \o str_int(i - 1),
                 name  |-> <<"W","M","I">> \o Sep
                           \o <<"A","C","P","I"," ","T","h","e","r","m","a","l","Z","o","n","e">>
                           \o Sep \o <<"i","d","x","=">> \o str_int(i - 1)
                           \o Sep \o b.zones[i].InstanceName,
                 value |-> IF IsNone(zone_raw(b.zones[i])) THEN None
                           ELSE Some(celsius(Val(zone_raw(b.zones[i]))))]])

\* lines 737-750: the Win32_Fan query and one candidate per record
wmi_fan_candidates(self, b) ==
    IF b.wfans_raise THEN Exc
    ELSE Ok([i \in 1..Len(b.wfans) |->
                [type  |-> "WMI_FAN",
                 id    |-> <<"W","M","I",":","F","A","N",":">> \o str_int(i - 1),
                 name  |-> <<"W","M","I">> \o Sep
                           \o <<"W","i","n","3","2","_","F","a","n">>
                           \o Sep \o <<"i","d","x","=">> \o str_int(i - 1)
                           \o Sep \o b.wfans[i].Name \o <<" ">> \o b.wfans[i].DeviceID,
                 value |-> IF IsNone(fan_raw(b.wfans[i])) THEN None
                           ELSE Some(Val(fan_raw(b.wfans[i])) * 100)]])

\* a plausible slip: the WMI query outside its try
list_temp_candidates_x_uncaught(self, b) ==
    LET l == Try(Ok(lhm_candidates(self, b, T_Temperature)), <<>>)
        w == IF ~self.wmi THEN Ok(<<>>) ELSE wmi_temp_candidates(self, b)
    IN IF l.exc \/ w.exc THEN Exc ELSE Ok(l.val \o w.val)

\* list_temp_candidates as a call: whether it raises, and the list it returns
list_temp_candidates_x(self, b) ==
    LET l == Try(Ok(lhm_candidates(self, b, T_Temperature)), <<>>)
        w == IF ~self.wmi THEN Ok(<<>>) ELSE Try(wmi_temp_candidates(self, b), <<>>)
    IN IF l.exc \/ w.exc THEN Exc ELSE Ok(l.val \o w.val)

\* list_fan_candidates as a call
list_fan_candidates_x(self, b) ==
    LET l == Try(Ok(lhm_candidates(self, b, T_Fan)), <<>>)
        w == IF ~self.wmi THEN Ok(<<>>) ELSE Try(wmi_fan_candidates(self, b), <<>>)
    IN IF l.exc \/ w.exc THEN Exc ELSE Ok(l.val \o w.val)

\* the list ensure_selection gets
list_temp_candidates(self, b) == list_temp_candidates_x(self, b).val

list_fan_candidates(self, b) == list_fan_candidates_x(self, b).val

----------------------------------------------------------------------------
(* Pinned reads: SensorSelector._read_lhm_by_id / read_temp_c / read_fan_rpm *)

\* a plausible slip: the value seen at selection time handed out when the
\* sensor is not found
_read_lhm_by_id_cached(self, b, ident) ==
    LET all == _iter_lhm_sensors_recursive(self, b)
        Hit(p) == p.s.raises \/ p.s.Identifier = ident
        hits == SelectSeq(all, Hit)
    IN IF hits # <<>> /\ ~hits[1].s.raises THEN hits[1].s.Value
       ELSE IF ~IsNone(self.sel_temp) /\ Val(self.sel_temp).id = ident
            THEN Val(self.sel_temp).value
       ELSE IF ~IsNone(self.sel_fan) /\ Val(self.sel_fan).id = ident
            THEN Val(self.sel_fan).value
       ELSE None

\* a plausible slip: "if s.Value" in place of "if s.Value is not None", which
\* turns a reading of 0 into None
_read_lhm_by_id_truthy(self, b, ident) ==
    LET all == _iter_lhm_sensors_recursive(self, b)
        Hit(p) == p.s.raises \/ p.s.Identifier = ident
        hits == SelectSeq(all, Hit)
    IN IF hits # <<>> /\ ~hits[1].s.raises /\ hits[1].s.Value # Some(0)
       THEN hits[1].s.Value ELSE None

\* the Value of the first sensor with this identifier, None when there is
\* none; a sensor met before it whose Identifier raises ends the search
\* (line 882)
_read_lhm_by_id(self, b, ident) ==
    LET all == _iter_lhm_sensors_recursive(self, b)
        Hit(p) == p.s.raises \/ p.s.Identifier = ident
        hits == SelectSeq(all, Hit)
    IN IF hits # <<>> /\ ~hits[1].s.raises THEN hits[1].s.Value ELSE None

\* a plausible slip: an index past the end answered by the last record
wmi_item_clamped(id, items) ==
    LET f == last_field(id)
    IN IF int_raises(f) THEN None
       ELSE IF 0 <= int_str(f) /\ int_str(f) < Len(items) THEN Some(items[int_str(f) + 1])
       ELSE IF 0 <= int_str(f) /\ items # <<>> THEN Some(items[Len(items)])
       ELSE None

\* items[idx] of a WMI query for the index at the end of a pinned id; an id
\* whose last field is no numeral makes int() raise, which the caller catches
wmi_item(id, items) ==
    LET f == last_field(id)
    IN IF int_raises(f) THEN None
       ELSE IF 0 <= int_str(f) /\ int_str(f) < Len(items) THEN Some(items[int_str(f) + 1])
       ELSE None

read_temp_c(self, b) ==
    IF IsNone(self.sel_temp) THEN None
    ELSE IF Val(self.sel_temp).type = "LHM"
         THEN _read_lhm_by_id(self, b, Val(self.sel_temp).id)
    ELSE IF Val(self.sel_temp).type = "WMI_ACPI" /\ self.wmi /\ ~b.zones_raise
         THEN LET it == wmi_item(Val(self.sel_temp).id, b.zones)
              IN IF IsNone(it) \/ IsNone(zone_raw(Val(it))) THEN None
                 ELSE Some(celsius(Val(zone_raw(Val(it)))))
    ELSE None

read_fan_rpm(self, b) ==
    IF IsNone(self.sel_fan) THEN None
    ELSE IF Val(self.sel_fan).type = "LHM"
         THEN _read_lhm_by_id(self, b, Val(self.sel_fan).id)
    ELSE IF Val(self.sel_fan).type = "WMI_FAN" /\ self.wmi /\ ~b.wfans_raise
         THEN LET it == wmi_item(Val(self.sel_fan).id, b.wfans)
              IN IF IsNone(it) \/ IsNone(fan_raw(Val(it))) THEN None
                 ELSE Some(Val(fan_raw(Val(it))) * 100)
    ELSE None

----------------------------------------------------------------------------
(* The fallback tiers of Metrics.cpu_stats *)

SetMax(S) == CHOOSE x \in S : \A y \in S : y <= x

RECURSIVE SeqSum(_)
SeqSum(q) == IF q = <<>> THEN 0 ELSE Head(q) + SeqSum(Tail(q))

\* the loop "for hw in self._comp.Hardware: if <match>: for s in hw.Sensors"
\* of the readers of LibreHMReader, over the top-level nodes only: the
\* (node index, sensor) pairs the loop body gets, in order, and whether an
\* exception ended the loop. Iterating Hardware or a node's Sensors raises
\* into the reader's outer try; a sensor whose attributes raise is skipped
\* where the body has its own try (sensor_aborts false) and ends the loop
\* where it has not.
TopScan(b, matching, sensor_aborts) ==
    LET RECURSIVE sens(_, _)
        sens(i, k) ==
            IF k > Len(b.Hardware[i].Sensors) THEN [items |-> <<>>, failed |-> FALSE]
            ELSE IF b.Hardware[i].Sensors[k].raises
                 THEN IF sensor_aborts THEN [items |-> <<>>, failed |-> TRUE]
                      ELSE sens(i, k + 1)
            ELSE LET r == sens(i, k + 1)
                 IN [items |-> <<[n |-> i, s |-> b.Hardware[i].Sensors[k]]>> \o r.items,
                     failed |-> r.failed]
        RECURSIVE go(_)
        go(i) ==
            IF i > Len(b.Hardware) THEN [items |-> <<>>, failed |-> FALSE]
            ELSE IF i \notin matching THEN go(i + 1)
            ELSE IF b.Hardware[i].sensors_raise THEN [items |-> <<>>, failed |-> TRUE]
            ELSE LET here == sens(i, 1)
                 IN IF here.failed THEN here
                    ELSE LET r == go(i + 1)
                         IN [items |-> here.items \o r.items, failed |-> r.failed]
    IN IF b.hardware_raises THEN [items |-> <<>>, failed |-> TRUE] ELSE go(1)

\* a plausible slip: the upper bound taken as plausible
top_level_values_closed(items, type, keywords, lo, hi) ==
    { Val(items[j].s.Value) :
        j \in { j \in 1..Len(items) :
                  /\ items[j].s.SensorType = type
                  /\ AnyKeyword(lower(items[j].s.Name), keywords)
                  /\ ~IsNone(items[j].s.Value)
                  /\ lo <= Val(items[j].s.Value)
                  /\ Val(items[j].s.Value) <= hi } }

\* among the pairs of a scan, the values of the sensors of one type whose
\* name holds a keyword and whose value lies in [lo, hi)
top_level_values(items, type, keywords, lo, hi) ==
    { Val(items[j].s.Value) :
        j \in { j \in 1..Len(items) :
                  /\ items[j].s.SensorType = type
                  /\ AnyKeyword(lower(items[j].s.Name), keywords)
                  /\ ~IsNone(items[j].s.Value)
                  /\ lo <= Val(items[j].s.Value)
                  /\ Val(items[j].s.Value) < hi } }

\* LibreHMReader.cpu_package_temp_c: the return sits inside the try, so an
\* exception gives None
cpu_package_temp_c(self, b) ==
    LET IsCpu(hw) == hw.HardwareType = <<"C","p","u">>
        sc == TopScan(b, { i \in DOMAIN b.Hardware : IsCpu(b.Hardware[i]) }, TRUE)
        candidates ==
            top_level_values(sc.items, T_Temperature,
                             << <<"p","a","c","k","a","g","e">>, <<"t","c","t","l">>,
                                <<"t","d","i","e">>, <<"c","c","d">>, <<"d","i","e">> >>,
                             0, 12000)
    IN IF ~self.lhm_ok \/ sc.failed \/ candidates = {} THEN None
       ELSE Some(SetMax(candidates))

\* LibreHMReader.cpu_fan_rpm: the return follows the try, so the candidates
\* gathered before an exception still count
cpu_fan_rpm(self, b) ==
    LET IsBoard(hw) == hw.HardwareType \in { <<"M","o","t","h","e","r","b","o","a","r","d">>,
                                            <<"S","u","p","e","r","I","O">>,
                                            <<"C","o","o","l","e","r">> }
        sc == TopScan(b, { i \in DOMAIN b.Hardware : IsBoard(b.Hardware[i]) }, TRUE)
        candidates == top_level_values(sc.items, T_Fan, fan_keywords, 100, 2000000)
    IN IF ~self.lhm_ok \/ candidates = {} THEN None ELSE Some(SetMax(candidates))

\* Metrics._cpu_fan_rpm_wmi: the mean of the plausible speeds
_cpu_fan_rpm_wmi(self, b) ==
    LET Keep(it) == /\ ~IsNone(fan_raw(it))
                    /\ 1 <= Val(fan_raw(it)) /\ Val(fan_raw(it)) < 20000
        kept == SelectSeq(b.wfans, Keep)
        vals == [i \in 1..Len(kept) |-> Val(fan_raw(kept[i])) * 100]
    IN IF ~self.wmi \/ b.wfans_raise \/ vals = <<>> THEN None
       ELSE Some(SeqSum(vals) \div Len(vals))

\* Metrics._cpu_package_temp_wmi: the largest plausible zone temperature
_cpu_package_temp_wmi(self, b) ==
    LET vals == { celsius(Val(zone_raw(b.zones[i]))) :
                    i \in { i \in 1..Len(b.zones) :
                              /\ ~IsNone(zone_raw(b.zones[i]))
                              /\ -2000 < celsius(Val(zone_raw(b.zones[i])))
                              /\ celsius(Val(zone_raw(b.zones[i]))) < 12000
                              /\ celsius(Val(zone_raw(b.zones[i]))) > 50 } }
    IN IF ~self.wmi \/ b.zones_raise \/ vals = {} THEN None ELSE Some(SetMax(vals))

\* a plausible slip: the native fan fallback nested under the temperature test
cpu_stats_coupled(self, b) ==
    LET rt == read_temp_c(self, b)
        rf == read_fan_rpm(self, b)
        t1 == IF IsNone(rt) /\ self.lhm_ok THEN cpu_package_temp_c(self, b) ELSE rt
        f1 == IF IsNone(rt) /\ IsNone(rf) /\ self.lhm_ok THEN cpu_fan_rpm(self, b) ELSE rf
    IN [rd_temp |-> rt, rd_fan |-> rf,
        fan_rpm |-> IF IsNone(f1) THEN _cpu_fan_rpm_wmi(self, b) ELSE f1,
        package_temp_c |-> IF IsNone(t1) THEN _cpu_package_temp_wmi(self, b) ELSE t1,
        queried |-> (IF IsNone(rt) /\ self.lhm_ok THEN {"cpu_package_temp_c"} ELSE {})
                    \cup (IF IsNone(rt) /\ IsNone(rf) /\ self.lhm_ok THEN {"cpu_fan_rpm"} ELSE {})
                    \cup (IF IsNone(f1) THEN {"_cpu_fan_rpm_wmi"} ELSE {})
                    \cup (IF IsNone(t1) THEN {"_cpu_package_temp_wmi"} ELSE {})]

\* the temperature and fan part of Metrics.cpu_stats (lines 1082-1107): the
\* pinned reads, then the native fallbacks, then the WMI fallbacks
cpu_stats(self, b) ==
    LET rt == read_temp_c(self, b)
        rf == read_fan_rpm(self, b)
        t1 == IF IsNone(rt) /\ self.lhm_ok THEN cpu_package_temp_c(self, b) ELSE rt
        f1 == IF IsNone(rf) /\ self.lhm_ok THEN cpu_fan_rpm(self, b) ELSE rf
    IN [rd_temp |-> rt, rd_fan |-> rf,
        fan_rpm |-> IF IsNone(f1) THEN _cpu_fan_rpm_wmi(self, b) ELSE f1,
        package_temp_c |-> IF IsNone(t1) THEN _cpu_package_temp_wmi(self, b) ELSE t1,
        queried |-> (IF IsNone(rt) /\ self.lhm_ok THEN {"cpu_package_temp_c"} ELSE {})
                    \cup (IF IsNone(rf) /\ self.lhm_ok THEN {"cpu_fan_rpm"} ELSE {})
                    \cup (IF IsNone(f1) THEN {"_cpu_fan_rpm_wmi"} ELSE {})
                    \cup (IF IsNone(t1) THEN {"_cpu_package_temp_wmi"} ELSE {})]

----------------------------------------------------------------------------
(* The aggregate readers of LibreHMReader and their callers in Metrics.
   Throughput (bytes/s) and clock (MHz) values are hundredths here too. GPU
   memory figures are whole MB and byte counts are given in units of 1000
   bytes, so that 3,000,000,000 bytes is the number 3000000. *)

\* the node indexes met in a scan
ScanNodes(items) == { items[j].n : j \in 1..Len(items) }

\* the sum of the function f over its finite domain
RECURSIVE SumFn(_)
SumFn(f) ==
    IF DOMAIN f = {} THEN 0
    ELSE LET x == CHOOSE x \in DOMAIN f : TRUE
         IN f[x] + SumFn([y \in DOMAIN f \ {x} |-> f[y]])

\* the sum of the values of the pairs of node i among the positions kept
NodeSum(items, i, kept) ==
    SumFn([j \in { j \in 1..Len(items) : items[j].n = i /\ j \in kept }
             |-> Val(items[j].s.Value)])

\* int(x) of a float x >= 0 given in hundredths
int_float(x) == x \div 100

\* lines 388-397: which of the three memory figures a sensor of a GPU node
\* gives, "none" when it gives none
gpu_figure(s) ==
    IF ~(Contains(lower(s.Identifier), <<"s","m","a","l","l","d","a","t","a">>) \/ s.SensorType = "SmallData")
    THEN "none"
    ELSE IF IsNone(s.Value) THEN "none"
    ELSE IF Contains(lower(s.Name), <<"g","p","u"," ","m","e","m","o","r","y"," ","u","s","e","d">>) THEN "used"
    ELSE IF Contains(lower(s.Name), <<"g","p","u"," ","m","e","m","o","r","y"," ","t","o","t","a","l">>) THEN "total"
    ELSE IF Contains(lower(s.Name), <<"d","3","d"," ","d","e","d","i","c","a","t","e","d"," ","m","e","m","o","r","y"," ","u","s","e","d">>) THEN "d3d"
    ELSE "none"

\* the figure of one kind a node ends its sensor loop with: the last one seen
gpu_local(items, i, figure) ==
    LET js == { j \in 1..Len(items) : items[j].n = i /\ gpu_figure(items[j].s) = figure }
    IN IF js = {} THEN None ELSE items[SetMax(js)].s.Value

\* 1_000_000.0 bytes, in units of 1000 bytes
MBytes == 1000

\* LibreHMReader.gpu_mem_used_total_bytes: (used bytes, total bytes)
gpu_mem_used_total_bytes(self, b) ==
    LET IsGpu(hw) == Contains(hw.HardwareType, <<"G","p","u">>)
        sc == TopScan(b, { i \in DOMAIN b.Hardware : IsGpu(b.Hardware[i]) }, FALSE)
        u_local(i) == IF ~IsNone(gpu_local(sc.items, i, "used"))
                      THEN gpu_local(sc.items, i, "used")
                      ELSE gpu_local(sc.items, i, "d3d")
        t_local(i) == gpu_local(sc.items, i, "total")
        U(i) == IF IsNone(u_local(i)) THEN 0 ELSE Val(u_local(i)) * MBytes
        Tt(i) == IF IsNone(t_local(i)) THEN 0 ELSE Val(t_local(i)) * MBytes
        used == SumFn([i \in ScanNodes(sc.items) |-> U(i)])
        total == SumFn([i \in ScanNodes(sc.items) |-> Tt(i)])
        has_any == \E i \in ScanNodes(sc.items) : ~IsNone(u_local(i)) \/ ~IsNone(t_local(i))
    IN IF ~self.lhm_ok \/ sc.failed \/ ~has_any THEN <<None, None>>
       ELSE << Some(IF used >= 0 THEN used ELSE 0),
               IF total > 0 THEN Some(total) ELSE None >>

\* the shape shared by nic_up_down_bps and storage_read_write_bps: per
\* matching node the two sums; a node counts when one of its sums is
\* positive (lines 505, 548); the result is 8 times the sums of these nodes
pair_bps(self, sc, kept_a, kept_b) ==
    LET a_local(i) == NodeSum(sc.items, i, kept_a)
        b_local(i) == NodeSum(sc.items, i, kept_b)
        counted == { i \in ScanNodes(sc.items) : a_local(i) > 0 \/ b_local(i) > 0 }
    IN IF ~self.lhm_ok \/ sc.failed \/ counted = {} THEN <<None, None>>
       ELSE << Some(int_float(SumFn([i \in counted |-> a_local(i)]) * 8)),
               Some(int_float(SumFn([i \in counted |-> b_local(i)]) * 8)) >>

\* LibreHMReader.nic_up_down_bps: (upload bit/s, download bit/s)
nic_up_down_bps(self, b) ==
    LET IsNet(hw) == lower(hw.HardwareType) = <<"n","e","t","w","o","r","k">>
        Up(s) == /\ s.SensorType = "Throughput"
                 /\ Contains(lower(s.Name), <<"u","p","l","o","a","d">>)
                 /\ ~IsNone(s.Value)
        Down(s) == /\ s.SensorType = "Throughput"
                   /\ ~Contains(lower(s.Name), <<"u","p","l","o","a","d">>)
                   /\ Contains(lower(s.Name), <<"d","o","w","n","l","o","a","d">>)
                   /\ ~IsNone(s.Value)
        sc == TopScan(b, { i \in DOMAIN b.Hardware : IsNet(b.Hardware[i]) }, FALSE)
    IN pair_bps(self, sc, { j \in DOMAIN sc.items : Up(sc.items[j].s) },
                { j \in DOMAIN sc.items : Down(sc.items[j].s) })

\* LibreHMReader.storage_read_write_bps: (read bit/s, write bit/s)
storage_read_write_bps(self, b) ==
    LET IsDisk(hw) ==
            \/ AnyKeyword(lower(hw.HardwareType), << <<"s","t","o","r","a","g","e">>, <<"h","d","d">>, <<"n","v","m","e">> >>)
            \/ AnyKeyword(lower(hw.Name), << <<"n","v","m","e">>, <<"h","d","d">>, <<"s","s","d">>, <<"w","d","c">>, <<"s","t">> >>)
        IsRead(nm) == Contains(nm, <<"r","e","a","d"," ","r","a","t","e">>)
                      \/ (Contains(nm, <<"r","e","a","d">>) /\ Contains(nm, <<"r","a","t","e">>))
        IsWrite(nm) == Contains(nm, <<"w","r","i","t","e"," ","r","a","t","e">>)
                       \/ (Contains(nm, <<"w","r","i","t","e">>) /\ Contains(nm, <<"r","a","t","e">>))
        Rd(s) == s.SensorType = "Throughput" /\ IsRead(lower(s.Name)) /\ ~IsNone(s.Value)
        Wr(s) == /\ s.SensorType = "Throughput"
                 /\ ~IsRead(lower(s.Name)) /\ IsWrite(lower(s.Name))
                 /\ ~IsNone(s.Value)
        sc == TopScan(b, { i \in DOMAIN b.Hardware : IsDisk(b.Hardware[i]) }, FALSE)
    IN pair_bps(self, sc, { j \in DOMAIN sc.items : Rd(sc.items[j].s) },
                { j \in DOMAIN sc.items : Wr(sc.items[j].s) })

\* nm.startswith("core #")
starts_core(nm) == Len(nm) >= 6 /\ SubSeq(nm, 1, 6) = <<"c","o","r","e"," ","#">>

\* LibreHMReader.cpu_effective_freq_mhz: the return follows the try, so the
\* values gathered before an exception are averaged
cpu_effective_freq_mhz(self, b) ==
    LET IsCpu(hw) == hw.HardwareType = <<"C","p","u">>
        sc == TopScan(b, { i \in DOMAIN b.Hardware : IsCpu(b.Hardware[i]) }, FALSE)
        Keep(it) == /\ it.s.SensorType = "Clock"
                    /\ (Contains(lower(it.s.Name), <<"e","f","f","e","c","t","i","v","e">>) \/ starts_core(lower(it.s.Name)))
                    /\ ~IsNone(it.s.Value)
                    /\ Val(it.s.Value) > 0
        kept == SelectSeq(sc.items, Keep)
        vals == [j \in 1..Len(kept) |-> Val(kept[j].s.Value)]
    IN IF ~self.lhm_ok \/ vals = <<>> THEN None
       ELSE Some(SeqSum(vals) \div Len(vals))

\* Metrics.net_io_rates: which tier answers, and the native tier's pair
net_io_rates(self, b) ==
    LET pair == nic_up_down_bps(self, b)
    IN IF self.lhm_ok /\ ~IsNone(pair[1]) /\ ~IsNone(pair[2])
       THEN [tier |-> "lhm", pair |-> pair]
       ELSE [tier |-> "psutil", pair |-> pair]

\* Metrics.disk_io_rates
disk_io_rates(self, b) ==
    LET pair == storage_read_write_bps(self, b)
    IN IF self.lhm_ok /\ ~IsNone(pair[1]) /\ ~IsNone(pair[2])
       THEN [tier |-> "lhm", pair |-> pair]
       ELSE [tier |-> "psutil", pair |-> pair]

----------------------------------------------------------------------------
(* SelectionStore: SensorSelector._save_config / _load_config *)

\* time.strftime at the moment of a save
Timestamps == {"2026-01-01 00:00:00"}

\* how the write ends: done, open() raises (file untouched), or the write
\* raises after open() has truncated the file
SaveOutcomes == {"ok", "open_raises", "write_raises"}

\* the file after _save_config
_save_config(f, st, sf, created_at, outcome) ==
    IF outcome = "ok" THEN Some(json_dump(st, sf, created_at))
    ELSE IF outcome = "write_raises" THEN Some(Garbage)
    ELSE f

\* "absent", "malformed" (json.load raises), "nonobject" (cfg.get raises) or "object"
FileKind(f) ==
    IF IsNone(f) THEN "absent"
    ELSE IF Val(f)[1] = "garbage" THEN "malformed"
    ELSE IF Val(f)[1] # "obj" THEN "nonobject"
    ELSE "object"

\* a plausible slip: the two keys read into the wrong fields
_load_config_swapped(f) ==
    IF FileKind(f) # "object" THEN [ok |-> FALSE, sel_temp |-> None, sel_fan |-> None]
    ELSE [ok |-> TRUE,
          sel_temp |-> load_selection(json_get(Val(f), "fan_source")),
          sel_fan |-> load_selection(json_get(Val(f), "temp_source"))]

\* _load_config: whether it returns True, and the selections it then sets
_load_config(f) ==
    IF FileKind(f) # "object" THEN [ok |-> FALSE, sel_temp |-> None, sel_fan |-> None]
    ELSE [ok |-> TRUE,
          sel_temp |-> load_selection(json_get(Val(f), "temp_source")),
          sel_fan |-> load_selection(json_get(Val(f), "fan_source"))]

----------------------------------------------------------------------------
(* The process: Metrics.__init__ with SensorSelector.ensure_selection, then
   the ticks of the driver loop *)

\* wmi_module usable on this platform, LibreHMReader.ok
Envs == [wmi : BOOLEAN, lhm_ok : BOOLEAN]

\* the selector as the operations see it
Self == [sel_temp |-> sel_temp, sel_fan |-> sel_fan, lhm_ok |-> env.lhm_ok, wmi |-> env.wmi]

Trace0 ==
    [start_file |-> "none",   \* the kind of file _load_config found
     loaded |-> FALSE,        \* _load_config returned True
     headless |-> FALSE,      \* line 827 found no terminal
     temp_listed |-> FALSE,   \* list_temp_candidates ran
     temp_cands |-> <<>>,     \* the list a start without a terminal picked from
     temp_fixed |-> FALSE,    \* sel_temp got its value (line 841 or 845)
     fan_listed |-> FALSE,    \* list_fan_candidates ran
     fan_fixed |-> FALSE,     \* sel_fan got its value (line 861 or 865)
     prompted |-> FALSE,      \* input() was called
     invalid |-> FALSE,       \* an input line was refused
     picker_ran |-> FALSE,    \* an AutoPicker ran
     save_called |-> FALSE,   \* _save_config was invoked
     save_failed |-> FALSE,   \* and its write raised (line 796)
     raised |-> "none",       \* the exception Metrics.__init__ swallowed
     reads |-> FALSE]         \* read_temp_c / read_fan_rpm were served

Tick0 ==
    [done |-> FALSE,          \* cpu_stats has run in this process
     temp_ids |-> {},         \* the ids of the temperature candidates the backend showed
     fan_ids |-> {},          \* the ids of the fan candidates
     rd_temp |-> None,        \* what read_temp_c returned
     rd_fan |-> None,         \* what read_fan_rpm returned
     fan_rpm |-> None,        \* what cpu_stats returned
     package_temp_c |-> None]

\* the lines an operator may type, and the end of input
InputChars == {"0", "1", " ", "x", "-", "sup2"}
Lines == UNION { [1..n -> InputChars] : n \in 0..MaxLineLen }
EOF == <<"EOF">>

\* a plausible slip: _save_config without its try, so that a failing write
\* leaves ensure_selection as an exception
AfterFanUncaught(st, sf, tr) ==
    \E outcome \in SaveOutcomes, created_at \in Timestamps :
        /\ file' = _save_config(file, st, sf, created_at, outcome)
        /\ written' = IF outcome = "ok" THEN Some(<<st, sf>>)
                      ELSE IF outcome = "write_raises" THEN None
                      ELSE written
        /\ sel_temp' = st
        /\ sel_fan' = sf
        /\ pc' = "ready"
        /\ temps' = <<>>
        /\ fans' = <<>>
        /\ trace' = [tr EXCEPT !.fan_fixed = TRUE, !.save_called = TRUE,
                               !.save_failed = (outcome # "ok"),
                               !.raised = IF outcome = "ok" THEN "none" ELSE "OSError"]
        /\ UNCHANGED <<env, tick>>
        /\ UNCHANGED <<pickVars, readVars, loopVars>>

\* lines 864-869: the fan selection is fixed and both are saved
AfterFan(st, sf, tr) ==
    \E outcome \in SaveOutcomes, created_at \in Timestamps :
        /\ file' = _save_config(file, st, sf, created_at, outcome)
        /\ written' = IF outcome = "ok" THEN Some(<<st, sf>>)
                      ELSE IF outcome = "write_raises" THEN None
                      ELSE written
        /\ sel_temp' = st
        /\ sel_fan' = sf
        /\ pc' = "ready"
        /\ temps' = <<>>
        /\ fans' = <<>>
        /\ trace' = [tr EXCEPT !.fan_fixed = TRUE, !.save_called = TRUE,
                               !.save_failed = (outcome # "ok")]
        /\ UNCHANGED <<env, tick>>
        /\ UNCHANGED <<pickVars, readVars, loopVars>>

\* lines 849-869: the temperature selection is fixed; list the fans and
\* either wait for the operator or pick and save
AfterTemp(st, is_tty, b, tr) ==
    LET fl == list_fan_candidates([Self EXCEPT !.sel_temp = st], b)
        tr2 == [tr EXCEPT !.temp_fixed = TRUE, !.fan_listed = TRUE]
    IN IF is_tty /\ fl # <<>>
       THEN /\ pc' = "fan_prompt"
            /\ sel_temp' = st
            /\ sel_fan' = None
            /\ temps' = <<>>
            /\ fans' = fl
            /\ trace' = [tr2 EXCEPT !.prompted = TRUE]
            /\ UNCHANGED <<file, written, env, tick>>
            /\ UNCHANGED <<pickVars, readVars, loopVars>>
       ELSE AfterFan(st, _auto_pick_fan([Self EXCEPT !.sel_temp = st], fl),
                     [tr2 EXCEPT !.picker_ran = TRUE])

\* ensure_selection leaves with an exception, which Metrics.__init__ logs
Raise(what, tr) ==
    /\ pc' = "ready"
    /\ temps' = <<>>
    /\ fans' = <<>>
    /\ trace' = [tr EXCEPT !.raised = what]
    /\ UNCHANGED <<file, written, env, tick, sel_temp, sel_fan>>
    /\ UNCHANGED <<pickVars, readVars, loopVars>>

\* a plausible slip: the loaded selections are written back before returning
MetricsInitLoadedResave ==
    /\ pc = "boot"
    /\ _load_config(file).ok
    /\ sel_temp' = _load_config(file).sel_temp
    /\ sel_fan' = _load_config(file).sel_fan
    /\ pc' = "ready"
    /\ \E created_at \in Timestamps :
         file' = _save_config(file, sel_temp', sel_fan', created_at, "ok")
    /\ trace' = [trace EXCEPT !.start_file = FileKind(file), !.loaded = TRUE,
                              !.save_called = TRUE]
    /\ UNCHANGED <<written, env, temps, fans, tick>>
    /\ UNCHANGED <<pickVars, readVars, loopVars>>

\* Metrics.__init__ when _load_config returns True: ensure_selection returns
MetricsInitLoaded ==
    /\ pc = "boot"
    /\ _load_config(file).ok
    /\ sel_temp' = _load_config(file).sel_temp
    /\ sel_fan' = _load_config(file).sel_fan
    /\ pc' = "ready"
    /\ trace' = [trace EXCEPT !.start_file = FileKind(file), !.loaded = TRUE]
    /\ UNCHANGED <<file, written, env, temps, fans, tick>>
    /\ UNCHANGED <<pickVars, readVars, loopVars>>

\* a plausible slip: without a terminal the first listed candidate is taken
MetricsInitColdFirst(is_tty, b) ==
    /\ pc = "boot"
    /\ ~_load_config(file).ok
    /\ LET ts == list_temp_candidates(Self, b)
           tr == [trace EXCEPT !.start_file = FileKind(file), !.temp_listed = TRUE,
                               !.temp_cands = IF is_tty THEN <<>> ELSE ts,
                               !.headless = ~is_tty]
       IN IF is_tty /\ ts # <<>>
          THEN /\ pc' = "temp_prompt"
               /\ temps' = ts
               /\ sel_temp' = None
               /\ trace' = [tr EXCEPT !.prompted = TRUE]
               /\ UNCHANGED <<file, written, env, fans, tick, sel_fan>>
               /\ UNCHANGED <<pickVars, readVars, loopVars>>
          ELSE AfterTemp(IF ts = <<>> THEN None ELSE Some(ts[1]), is_tty, b,
                         [tr EXCEPT !.picker_ran = TRUE])

\* Metrics.__init__ when _load_config returns False: ensure_selection lists
\* the temperature candidates and goes on up to the first input() or the end;
\* is_tty is sys.stdin.isatty() (line 827)
MetricsInitCold(is_tty, b) ==
    /\ pc = "boot"
    /\ ~_load_config(file).ok
    /\ LET ts == list_temp_candidates(Self, b)
           tr == [trace EXCEPT !.start_file = FileKind(file), !.temp_listed = TRUE,
                               !.temp_cands = IF is_tty THEN <<>> ELSE ts,
                               !.headless = ~is_tty]
       IN IF is_tty /\ ts # <<>>
          THEN /\ pc' = "temp_prompt"
               /\ temps' = ts
               /\ sel_temp' = None
               /\ trace' = [tr EXCEPT !.prompted = TRUE]
               /\ UNCHANGED <<file, written, env, fans, tick, sel_fan>>
               /\ UNCHANGED <<pickVars, readVars, loopVars>>
          ELSE AfterTemp(_auto_pick_temp(Self, ts), is_tty, b,
                         [tr EXCEPT !.picker_ran = TRUE])

\* what one input line at a prompt over the list cands leads to
LineEffect(line, cands) ==
    IF line = EOF THEN "EOFError"
    ELSE IF strip(line) = <<>> THEN "auto"
    ELSE IF ~isdigit(strip(line)) THEN "invalid"
    ELSE IF int_raises(strip(line)) THEN "ValueError"
    ELSE IF 0 <= int_str(strip(line)) /\ int_str(strip(line)) < Len(cands) THEN "index"
    ELSE "invalid"

\* lines 836-843: a refused line, the prompt is shown again
TempPromptInvalid(line) ==
    /\ pc = "temp_prompt"
    /\ LineEffect(line, temps) = "invalid"
    /\ trace' = [trace EXCEPT !.invalid = TRUE]
    /\ UNCHANGED <<pc, file, written, env, temps, fans, tick, sel_temp, sel_fan>>
    /\ UNCHANGED <<pickVars, readVars, loopVars>>

\* line 837 or 840: input() or int() raises
TempPromptRaises(line) ==
    /\ pc = "temp_prompt"
    /\ LineEffect(line, temps) \in {"EOFError", "ValueError"}
    /\ Raise(LineEffect(line, temps), trace)

\* lines 838-847: an empty line (AutoPicker) or a valid index; a prompt is
\* shown only when is_tty holds
TempPromptAccept(line) ==
    /\ pc = "temp_prompt"
    /\ LineEffect(line, temps) \in {"auto", "index"}
    /\ \E b \in Backends :
         IF LineEffect(line, temps) = "index"
         THEN AfterTemp(Some(temps[int_str(strip(line)) + 1]), TRUE, b, trace)
         ELSE AfterTemp(_auto_pick_temp(Self, temps), TRUE, b,
                        [trace EXCEPT !.picker_ran = TRUE])

FanPromptInvalid(line) ==
    /\ pc = "fan_prompt"
    /\ LineEffect(line, fans) = "invalid"
    /\ trace' = [trace EXCEPT !.invalid = TRUE]
    /\ UNCHANGED <<pc, file, written, env, temps, fans, tick, sel_temp, sel_fan>>
    /\ UNCHANGED <<pickVars, readVars, loopVars>>

FanPromptRaises(line) ==
    /\ pc = "fan_prompt"
    /\ LineEffect(line, fans) \in {"EOFError", "ValueError"}
    /\ Raise(LineEffect(line, fans), trace)

FanPromptAccept(line) ==
    /\ pc = "fan_prompt"
    /\ LineEffect(line, fans) \in {"auto", "index"}
    /\ IF LineEffect(line, fans) = "index"
       THEN AfterFan(sel_temp, Some(fans[int_str(strip(line)) + 1]), trace)
       ELSE AfterFan(sel_temp, _auto_pick_fan(Self, fans), [trace EXCEPT !.picker_ran = TRUE])

\* what a tick records: the candidates the backend showed, and what
\* cpu_stats read
TickOf(self, b) ==
    LET st == cpu_stats(self, b)
        ts == list_temp_candidates(self, b)
        fs == list_fan_candidates(self, b)
    IN [done |-> TRUE,
        temp_ids |-> {ts[i].id : i \in 1..Len(ts)},
        fan_ids |-> {fs[i].id : i \in 1..Len(fs)},
        rd_temp |-> st.rd_temp,
        rd_fan |-> st.rd_fan,
        fan_rpm |-> st.fan_rpm,
        package_temp_c |-> st.package_temp_c]

\* a plausible slip: a pinned source that reads absent is selected anew
CpuStatsReselect(b) ==
    /\ pc = "ready"
    /\ tick' = TickOf(Self, b)
    /\ trace' = [trace EXCEPT !.reads = TRUE]
    /\ sel_temp' = IF IsNone(read_temp_c(Self, b))
                   THEN _auto_pick_temp(Self, list_temp_candidates(Self, b))
                   ELSE sel_temp
    /\ UNCHANGED <<pc, file, written, env, temps, fans, sel_fan>>
    /\ UNCHANGED <<pickVars, readVars, loopVars>>

\* one tick of the driver loop: Metrics.cpu_stats against the backend as it is
CpuStats(b) ==
    /\ pc = "ready"
    /\ tick' = TickOf(Self, b)
    /\ trace' = [trace EXCEPT !.reads = TRUE]
    /\ UNCHANGED <<pc, file, written, env, temps, fans, sel_temp, sel_fan>>
    /\ UNCHANGED <<pickVars, readVars, loopVars>>

\* the process ends (at any point) and a new one starts on the same file
Restart ==
    /\ pc' = "boot"
    /\ env' \in Envs
    /\ sel_temp' = None
    /\ sel_fan' = None
    /\ temps' = <<>>
    /\ fans' = <<>>
    /\ trace' = Trace0
    /\ tick' = Tick0
    /\ UNCHANGED <<file, written>>
    /\ UNCHANGED <<pickVars, readVars, loopVars>>

\* a selector that has pinned nothing (SensorSelector.__init__)
FreshSelf == [sel_temp |-> None, sel_fan |-> None, lhm_ok |-> TRUE, wmi |-> TRUE]

\* what a tick leaves behind, before the first tick
Tick_0 ==
    [ran |-> {},              \* the steps of the loop body that were reached
     failed |-> {},           \* those of them that raised
     aborted |-> FALSE,       \* the outer handler (line 641) was entered
     written |-> FALSE,       \* write_data_js wrote the data file
     tick_time |-> FALSE,     \* metrics.tick_time() ran
     elapsed |-> 0,           \* time.time() - loop_start in the finally block
     to_sleep |-> 0,          \* what time.sleep was called with
     net |-> None,            \* the raw-counter computation of net_io_rates
     disk |-> None]           \* and of disk_io_rates

\* Metrics.__init__ lines 958-960: the three baselines are taken at start (0)
Prev0 == [prev_net |-> 0, prev_disks |-> 0, prev_time |-> 0]

\* the driver loop has not started
LoopIdle ==
    /\ lp_env = [lhm_ok |-> FALSE, db |-> FALSE]
    /\ lp_n = 0
    /\ lp_prev = Prev0
    /\ lp_last = Tick_0

ReadIdle ==
    /\ rq_kind = "stats"
    /\ rq_self = FreshSelf
    /\ rq_b = Backend(<<>>, <<>>, <<>>)
    /\ rq_op = "none"
    /\ rq_out = None

PickIdle ==
    /\ pk_kind = "temp"
    /\ pk_list = <<>>
    /\ pk_self = <<FreshSelf, FreshSelf>>
    /\ pk_called = {}
    /\ pk_res = <<None, None>>

\* no file, or a file that holds a JSON list; a file that does not parse is
\* what a failed write leaves
Init ==
    /\ pc = "boot"
    /\ file \in {None, Some(JArr(<<>>))}
    /\ written = None
    /\ sel_temp = None
    /\ sel_fan = None
    /\ env \in Envs
    /\ temps = <<>>
    /\ fans = <<>>
    /\ trace = Trace0
    /\ tick = Tick0
    /\ PickIdle
    /\ ReadIdle
    /\ LoopIdle

Next ==
    \/ MetricsInitLoaded
    \/ \E is_tty \in BOOLEAN, b \in Backends : MetricsInitCold(is_tty, b)
    \/ \E line \in Lines \cup {EOF} : TempPromptInvalid(line)
    \/ \E line \in Lines \cup {EOF} : TempPromptRaises(line)
    \/ \E line \in Lines \cup {EOF} : TempPromptAccept(line)
    \/ \E line \in Lines \cup {EOF} : FanPromptInvalid(line)
    \/ \E line \in Lines \cup {EOF} : FanPromptRaises(line)
    \/ \E line \in Lines \cup {EOF} : FanPromptAccept(line)
    \/ \E b \in Backends : CpuStats(b)
    \/ Restart

Spec == Init /\ [][Next]_vars

----------------------------------------------------------------------------
(* AutoPicker specification: one candidate list, two selectors in different
   states, each of which may run the picker at any time. *)

\* the candidate types list_temp_candidates / list_fan_candidates produce
PickTypes(kind) == IF kind = "temp" THEN {"LHM", "WMI_ACPI"} ELSE {"LHM", "WMI_FAN"}

\* display names: "CPU" holds a keyword of both kinds (in upper case), "Tdie"
\* a temperature keyword only, "Pump" a fan keyword only
PickNames == { <<"C","P","U">>, <<"T","d","i","e">>, <<"P","u","m","p">> }

\* None, both ends of the plausible interval, and values inside it
PickValues(kind) ==
    IF kind = "temp" THEN {None, Some(50), Some(4500), Some(7200), Some(12000)}
    ELSE {None, Some(99), Some(100), Some(120000), Some(2000000)}

PickShapes(kind) == [type : PickTypes(kind), name : PickNames, value : PickValues(kind)]

\* the candidate dicts of a list of shapes; the id tells the positions apart
PickCands(l) == [i \in 1..Len(l) |->
                   [type |-> l[i].type, id |-> <<"#">> \o str_int(i),
                    name |-> l[i].name, value |-> l[i].value]]

\* besides FreshSelf, a selector that has pinned the last candidate of the
\* list and holds no backend
PickSelves(l) ==
    {FreshSelf} \cup
    { [sel_temp |-> Some(l[i]), sel_fan |-> Some(l[i]), lhm_ok |-> FALSE, wmi |-> FALSE] : i \in {Len(l)} \ {0} }

PkAutoPickTemp(i) ==
    /\ pk_kind = "temp"
    /\ pk_res' = [pk_res EXCEPT ![i] = _auto_pick_temp(pk_self[i], pk_list)]
    /\ pk_called' = pk_called \cup {i}
    /\ UNCHANGED <<pk_kind, pk_list, pk_self>>
    /\ UNCHANGED <<mainVars, readVars, loopVars>>

PkAutoPickFan(i) ==
    /\ pk_kind = "fan"
    /\ pk_res' = [pk_res EXCEPT ![i] = _auto_pick_fan(pk_self[i], pk_list)]
    /\ pk_called' = pk_called \cup {i}
    /\ UNCHANGED <<pk_kind, pk_list, pk_self>>
    /\ UNCHANGED <<mainVars, readVars, loopVars>>

\* the second selector pins something else between two calls
PkReselect ==
    /\ \E s \in PickSelves(pk_list) : pk_self' = [pk_self EXCEPT ![2] = s]
    /\ UNCHANGED <<pk_kind, pk_list, pk_called, pk_res>>
    /\ UNCHANGED <<mainVars, readVars, loopVars>>

\* the process is left as it starts, without a file
MainIdle ==
    /\ pc = "boot"
    /\ file = None
    /\ written = None
    /\ sel_temp = None
    /\ sel_fan = None
    /\ env = [wmi |-> FALSE, lhm_ok |-> FALSE]
    /\ temps = <<>>
    /\ fans = <<>>
    /\ trace = Trace0
    /\ tick = Tick0

InitPick ==
    /\ pk_kind \in {"temp", "fan"}
    /\ \E n \in 0..MaxCands : \E l \in [1..n -> PickShapes(pk_kind)] : pk_list = PickCands(l)
    /\ pk_self = <<FreshSelf, FreshSelf>>
    /\ pk_called = {}
    /\ pk_res = <<None, None>>
    /\ MainIdle
    /\ ReadIdle
    /\ LoopIdle

NextPick ==
    \/ \E i \in {1, 2} : PkAutoPickTemp(i)
    \/ \E i \in {1, 2} : PkAutoPickFan(i)
    \/ PkReselect

SpecPick == InitPick /\ [][NextPick]_vars

----------------------------------------------------------------------------
(* Reader specification: one backend snapshot, drawn from the family of the
   reader under study, and one call on it *)

\* a sensor whose attributes raise
RaisingSensor == [Sensor("Temperature", <<>>, <<>>, None) EXCEPT !.raises = TRUE]

\* the sequences of at most MaxNodes nodes drawn from Shapes
Trees(Shapes) == UNION { [1..n -> Shapes] : n \in 0..MaxNodes }

\* ---- family "stats": what cpu_stats reads ----
SensorStates == {"gone", "none", "value", "raises"}

StatSensors(st, type, ident, name, v) ==
    IF st = "gone" THEN <<>>
    ELSE IF st = "raises" THEN <<RaisingSensor>>
    ELSE <<Sensor(type, ident, name, IF st = "none" THEN None ELSE Some(v))>>

\* a Cpu node with a package temperature sensor and a top-level SuperIO
\* node with a CPU fan sensor
StatsHardware(ct, sf) ==
    << Node(<<"C","p","u">>, <<"X">>, StatSensors(ct, T_Temperature, ID_CpuTemp, <<"T","c","t","l">>, 5500), <<>>),
       Node(<<"S","u","p","e","r","I","O">>, <<"N">>, StatSensors(sf, T_Fan, ID_SioFan, <<"C","P","U"," ","F","a","n">>, 120000), <<>>) >>

\* the WMI side of a snapshot: no record, one record, or a query that raises
WmiSides == {"empty", "one", "raises"}

StatsBackends ==
    { [Backend(StatsHardware(ct, sf),
               IF z = "one" THEN CHOOSE l \in ZoneLists : l # <<>> ELSE <<>>,
               IF w = "one" THEN CHOOSE l \in WmiFanLists : l # <<>> ELSE <<>>)
         EXCEPT !.zones_raise = (z = "raises"), !.wfans_raise = (w = "raises")] :
        ct \in SensorStates, sf \in SensorStates, z \in WmiSides, w \in WmiSides }

\* selections pinned at an earlier moment, with the value seen then
PinnedTemps ==
    { None,
      Some([type |-> "LHM", id |-> ID_CpuTemp, name |-> <<"L","H","M"," ","|"," ","C","p","u"," ","|"," ","X"," ","|"," ","T","c","t","l">>,
            value |-> Some(4000)]),
      Some([type |-> "WMI_ACPI", id |-> <<"W","M","I",":","A","C","P","I",":","0">>, name |-> <<"W","M","I">>,
            value |-> Some(3000)]) }

PinnedFans ==
    { None,
      Some([type |-> "LHM", id |-> ID_SioFan, name |-> <<"L","H","M"," ","|"," ","S","u","p","e","r","I","O"," ","|"," ","N"," ","|"," ","C","P","U"," ","F","a","n">>,
            value |-> Some(90000)]),
      Some([type |-> "WMI_FAN", id |-> <<"W","M","I",":","F","A","N",":","0">>, name |-> <<"W","M","I">>,
            value |-> Some(70000)]) }

StatsSelves ==
    { [sel_temp |-> st, sel_fan |-> sf, lhm_ok |-> l, wmi |-> w] :
        st \in PinnedTemps, sf \in PinnedFans, l \in BOOLEAN, w \in BOOLEAN }

\* a selector that has pinned nothing, with the native library loaded or not
PlainSelves == { [FreshSelf EXCEPT !.lhm_ok = l, !.wmi = FALSE] : l \in BOOLEAN }

\* the snapshots over the trees of a family of node shapes
TreeBackends(Shapes) ==
    { [Backend(t, <<>>, <<>>) EXCEPT !.hardware_raises = r] :
        t \in Trees(Shapes), r \in BOOLEAN }

\* ---- family "gpu": nodes for gpu_mem_used_total_bytes ----
ID_Small == <<"/","g","p","u","/","0","/","s","m","a","l","l","d","a","t","a","/","0">>

\* a SmallData sensor of a GPU node
Small(name, v) == Sensor("SmallData", ID_Small, name, v)

\* a GPU node with the memory figures given (MB), absent ones left out
GpuNode(used, total, d3d) ==
    Node(<<"G","p","u","N","v","i","d","i","a">>, <<"G">>,
         (IF IsNone(d3d) THEN <<>> ELSE <<Small(<<"D","3","D"," ","D","e","d","i","c","a","t","e","d"," ","M","e","m","o","r","y"," ","U","s","e","d">>, d3d)>>)
         \o (IF IsNone(used) THEN <<>> ELSE <<Small(<<"G","P","U"," ","M","e","m","o","r","y"," ","U","s","e","d">>, used)>>)
         \o (IF IsNone(total) THEN <<>> ELSE <<Small(<<"G","P","U"," ","M","e","m","o","r","y"," ","T","o","t","a","l">>, total)>>),
         <<>>)

GpuShapes ==
    { GpuNode(Some(1000), Some(2000), None),
      GpuNode(Some(500), Some(1000), Some(300)),
      GpuNode(Some(1000), None, None),
      GpuNode(None, Some(2000), None),
      GpuNode(None, None, Some(300)),
      GpuNode(Some(0), Some(0), None),
      Node(<<"G","p","u","N","v","i","d","i","a">>, <<"G">>, <<Small(<<"G","P","U"," ","M","e","m","o","r","y"," ","U","s","e","d">>, None)>>, <<>>),
      Node(<<"G","p","u","N","v","i","d","i","a">>, <<"G">>, <<RaisingSensor, Small(<<"G","P","U"," ","M","e","m","o","r","y"," ","U","s","e","d">>, Some(1000))>>, <<>>),
      [GpuNode(Some(1000), Some(2000), None) EXCEPT !.sensors_raise = TRUE],
      Node(<<"C","p","u">>, <<"X">>, <<Small(<<"G","P","U"," ","M","e","m","o","r","y"," ","U","s","e","d">>, Some(700))>>, <<>>) }

\* ---- family "nic": nodes for nic_up_down_bps ----
Thru(name, v) == Sensor("Throughput", <<"/","t","/","0">>, name, v)

NicNode(up, down) ==
    Node(<<"N","e","t","w","o","r","k">>, <<"E">>,
         <<Thru(<<"U","p","l","o","a","d"," ","S","p","e","e","d">>, up), Thru(<<"D","o","w","n","l","o","a","d"," ","S","p","e","e","d">>, down)>>, <<>>)

RateValues == {None, Some(0), Some(12500000)}

NicShapes ==
    { NicNode(u, d) : u \in RateValues, d \in RateValues }
    \cup { Node(<<"N","e","t","w","o","r","k">>, <<"E">>, <<>>, <<>>),
           Node(<<"N","e","t","w","o","r","k">>, <<"E">>,
                <<Sensor("Data", <<"/","t","/","1">>, <<"D","a","t","a"," ","U","p","l","o","a","d","e","d">>, Some(900)),
                  Thru(<<"D","o","w","n","l","o","a","d"," ","S","p","e","e","d">>, Some(300))>>, <<>>),
           Node(<<"N","e","t","w","o","r","k">>, <<"E">>, <<RaisingSensor, Thru(<<"U","p","l","o","a","d"," ","S","p","e","e","d">>, Some(12500000))>>, <<>>),
           [NicNode(Some(12500000), Some(0)) EXCEPT !.sensors_raise = TRUE],
           Node(<<"C","p","u">>, <<"X">>, <<Thru(<<"U","p","l","o","a","d"," ","S","p","e","e","d">>, Some(700))>>, <<>>) }

\* ---- family "storage": nodes for storage_read_write_bps ----
DiskNode(rd, wr) ==
    Node(<<"S","t","o","r","a","g","e">>, <<"D">>, <<Thru(<<"R","e","a","d"," ","R","a","t","e">>, rd), Thru(<<"W","r","i","t","e"," ","R","a","t","e">>, wr)>>, <<>>)

StorageShapes ==
    { DiskNode(r, w) : r \in RateValues, w \in RateValues }
    \cup { Node(<<"S","t","o","r","a","g","e">>, <<"D">>, <<>>, <<>>),
           Node(<<"C","p","u">>, <<"S","T","1">>, <<Thru(<<"R","e","a","d"," ","R","a","t","e">>, Some(400))>>, <<>>),
           Node(<<"S","t","o","r","a","g","e">>, <<"D">>, <<RaisingSensor, Thru(<<"R","e","a","d"," ","R","a","t","e">>, Some(12500000))>>, <<>>),
           [DiskNode(Some(12500000), Some(0)) EXCEPT !.sensors_raise = TRUE],
           Node(<<"C","p","u">>, <<"X">>, <<Thru(<<"R","e","a","d"," ","R","a","t","e">>, Some(700))>>, <<>>) }

\* ---- family "freq": nodes for cpu_effective_freq_mhz ----
Clock(name, v) == Sensor("Clock", <<"/","k","/","0">>, name, v)

CpuNode(sensors) == Node(<<"C","p","u">>, <<"X">>, sensors, <<>>)

FreqShapes ==
    { CpuNode(<<Clock(<<"C","o","r","e"," ","#","1"," ","(","E","f","f","e","c","t","i","v","e",")">>, v)>>) :
        v \in {None, Some(0), Some(100000), Some(300000)} }
    \cup { CpuNode(<<>>),
           CpuNode(<<Clock(<<"C","o","r","e"," ","#","1">>, Some(400000))>>),
           CpuNode(<<Clock(<<"B","u","s"," ","S","p","e","e","d">>, Some(10000))>>),
           CpuNode(<<Clock(<<"C","o","r","e"," ","#","1">>, Some(400000)), Clock(<<"C","o","r","e"," ","#","1"," ","(","E","f","f","e","c","t","i","v","e",")">>, Some(100000))>>),
           CpuNode(<<Sensor(T_Temperature, <<"/","k","/","1">>, <<"C","o","r","e"," ","#","1"," ","(","E","f","f","e","c","t","i","v","e",")">>, Some(5000))>>),
           CpuNode(<<RaisingSensor, Clock(<<"C","o","r","e"," ","#","1"," ","(","E","f","f","e","c","t","i","v","e",")">>, Some(100000))>>),
           [CpuNode(<<Clock(<<"C","o","r","e"," ","#","1"," ","(","E","f","f","e","c","t","i","v","e",")">>, Some(300000))>>) EXCEPT !.sensors_raise = TRUE],
           Node(<<"M","o","t","h","e","r","b","o","a","r","d">>, <<"B">>, <<Clock(<<"C","o","r","e"," ","#","1"," ","(","E","f","f","e","c","t","i","v","e",")">>, Some(200000))>>, <<>>) }

\* ---- family "enum": trees and WMI records for the enumerators ----
EnumShapes ==
    { Node(<<"C","p","u">>, <<"X">>, <<Sensor(T_Temperature, ID_CpuTemp, <<"T","c","t","l">>, Some(5500))>>, <<>>),
      Node(<<"C","p","u">>, <<"X">>, <<Sensor(T_Temperature, ID_CpuTemp, <<"T","c","t","l">>, None),
                             Sensor(T_Fan, <<"/","c","/","1">>, <<"F","a","n">>, Some(0))>>, <<>>),
      Node(<<"M","o","t","h","e","r","b","o","a","r","d">>, <<"B">>,
           <<Sensor(T_Temperature, <<"/","m","/","0">>, <<"T","1">>, Some(99900))>>,
           << Node(<<"S","u","p","e","r","I","O">>, <<"N">>,
                   <<Sensor(T_Fan, ID_SioFan, <<"F","a","n","1">>, Some(120000)),
                     Sensor(T_Temperature, <<"/","l","/","1">>, <<"T","2">>, Some(0))>>, <<>>) >>),
      [Node(<<"M","o","t","h","e","r","b","o","a","r","d">>, <<"B">>,
            <<Sensor(T_Fan, <<"/","m","/","1">>, <<"F","a","n","2">>, Some(50000))>>,
            << Node(<<"S","u","p","e","r","I","O">>, <<"N">>,
                    <<Sensor(T_Temperature, <<"/","l","/","1">>, <<"T","2">>, Some(4000))>>, <<>>) >>)
         EXCEPT !.subs_raise = TRUE],
      [Node(<<"M","o","t","h","e","r","b","o","a","r","d">>, <<"B">>,
            <<Sensor(T_Temperature, <<"/","m","/","0">>, <<"T","1">>, Some(3000))>>,
            << Node(<<"S","u","p","e","r","I","O">>, <<"N">>,
                    <<Sensor(T_Fan, ID_SioFan, <<"F","a","n","1">>, Some(120000))>>, <<>>) >>)
         EXCEPT !.sensors_raise = TRUE],
      Node(<<"C","p","u">>, <<"X">>, <<RaisingSensor,
                             Sensor(T_Temperature, ID_CpuTemp, <<"T","c","t","l">>, Some(5500))>>, <<>>),
      Node(<<"M","e","m","o","r","y">>, <<"M">>, <<>>, <<>>) }

\* thermal zone records: none, one, or two of which the first has no value
EnumZones ==
    { <<>>,
      <<[CurrentTemperature |-> Some(3132), Temperature |-> None, InstanceName |-> <<"T","Z">>]>>,
      <<[CurrentTemperature |-> None, Temperature |-> None, InstanceName |-> <<"T","Z">>],
        [CurrentTemperature |-> Some(0), Temperature |-> Some(3232), InstanceName |-> <<"T","Y">>]>> }

EnumFans ==
    { <<>>,
      <<[Speed |-> Some(0), DesiredSpeed |-> Some(800), Name |-> <<"F">>, DeviceID |-> <<"D">>]>> }

EnumBackends ==
    { [Backend(t, z, w) EXCEPT !.hardware_raises = hr, !.zones_raise = zr, !.wfans_raise = wr] :
        t \in Trees(EnumShapes), z \in EnumZones, w \in EnumFans,
        hr \in BOOLEAN, zr \in BOOLEAN, wr \in BOOLEAN }

EnumSelves == { [FreshSelf EXCEPT !.lhm_ok = l, !.wmi = w] : l \in BOOLEAN, w \in BOOLEAN }

\* ---- family "pinned": WMI selections of an earlier enumeration ----
\* the index a selection was pinned with
PinIndexes == 0..2

PinZones ==
    EnumZones
    \cup { <<[CurrentTemperature |-> Some(3032), Temperature |-> None, InstanceName |-> <<"T","Z">>],
             [CurrentTemperature |-> None, Temperature |-> Some(3232), InstanceName |-> <<"T","Y">>],
             [CurrentTemperature |-> Some(3332), Temperature |-> Some(3432), InstanceName |-> <<"T","X">>]>> }

PinFans ==
    EnumFans
    \cup { <<[Speed |-> None, DesiredSpeed |-> Some(800), Name |-> <<"F">>, DeviceID |-> <<"D">>]>>,
           <<[Speed |-> Some(1200), DesiredSpeed |-> None, Name |-> <<"F">>, DeviceID |-> <<"D">>],
             [Speed |-> None, DesiredSpeed |-> None, Name |-> <<"G">>, DeviceID |-> <<"E">>],
             [Speed |-> Some(0), DesiredSpeed |-> Some(900), Name |-> <<"H">>, DeviceID |-> <<"F">>]>> }

PinnedBackends ==
    { [Backend(<<>>, z, w) EXCEPT !.zones_raise = zr, !.wfans_raise = wr] :
        z \in PinZones, w \in PinFans, zr \in BOOLEAN, wr \in BOOLEAN }

\* selectors holding the selections list_*_candidates made for index i, j
PinnedSelves ==
    { [sel_temp |-> Some([type |-> "WMI_ACPI", id |-> <<"W","M","I",":","A","C","P","I",":">> \o str_int(i),
                          name |-> <<"W","M","I">>, value |-> Some(3000)]),
       sel_fan |-> Some([type |-> "WMI_FAN", id |-> <<"W","M","I",":","F","A","N",":">> \o str_int(j),
                         name |-> <<"W","M","I">>, value |-> Some(70000)]),
       lhm_ok |-> FALSE, wmi |-> w] :
        i \in PinIndexes, j \in PinIndexes, w \in BOOLEAN }

\* ---- family "edge": cpu_stats and the pinned reads on values at and
\* beyond the sanity bounds ----
\* sensor temperatures: below zero, 0.0, just under 120.0, 120.0
EdgeTemps == {-100, 0, 11999, 12000}

\* sensor fan speeds: 0, 1.0, just under 20000.0, 20000.0
EdgeRpms == {0, 100, 1999999, 2000000}

\* one thermal zone at 0.45, 0.55, 119.95 or 120.05 degrees
EdgeZones ==
    { <<[CurrentTemperature |-> Some(raw), Temperature |-> None, InstanceName |-> <<"T","Z">>]>> :
        raw \in {2736, 2737, 3931, 3932} }

EdgeFan(rpm) == [Speed |-> Some(rpm), DesiredSpeed |-> None, Name |-> <<"F">>, DeviceID |-> <<"D">>]

\* one Win32_Fan record at 0, 1, 19999 or 20000 RPM, or two of them
EdgeFans == { <<EdgeFan(rpm)>> : rpm \in {0, 1, 19999, 20000} } \cup { <<EdgeFan(1), EdgeFan(19999)>> }

\* the tree of the family "stats" with the two values given
EdgeHardware(t, f) ==
    << Node(<<"C","p","u">>, <<"X">>, StatSensors("value", T_Temperature, ID_CpuTemp, <<"T","c","t","l">>, t), <<>>),
       Node(<<"S","u","p","e","r","I","O">>, <<"N">>, StatSensors("value", T_Fan, ID_SioFan, <<"C","P","U"," ","F","a","n">>, f), <<>>) >>

EdgeBackends ==
    { Backend(EdgeHardware(t, f), z, w) :
        t \in EdgeTemps, f \in EdgeRpms, z \in EdgeZones, w \in EdgeFans }

\* ---- family "proc": Metrics.process_status over a process table ----
\* a query is (display name, pattern in lower case), as
\* _build_process_queries leaves it
Query(disp, pat) == [disp |-> disp, pat |-> pat]

\* the first query whose pattern is in the path, 0 when there is none
\* (lines 1320-1323 with the break of line 1357)
first_match(queries, pexe_l) ==
    IF \E i \in DOMAIN queries : Contains(pexe_l, queries[i].pat)
    THEN CHOOSE i \in DOMAIN queries :
             /\ Contains(pexe_l, queries[i].pat)
             /\ \A j \in 1..(i - 1) : ~Contains(pexe_l, queries[j].pat)
    ELSE 0

\* the body of the loop of lines 1310-1359 for one process. counts is
\* grouped / match_counts and warn is warn_flags, all keyed by display name;
\* abort is hard_abort_item (the index of the query); examined counts the
\* processes the body ran for
process_one(queries, p, st) ==
    IF ~IsNone(st.abort) THEN st
    ELSE LET m == IF p.raises \/ strip(p.exe) = <<>> THEN 0
                  ELSE first_match(queries, lower(strip(p.exe)))
         IN IF m = 0 THEN [st EXCEPT !.examined = @ + 1]
            ELSE LET d == queries[m].disp
                     cnt == st.counts[d] + 1
                 IN [counts |-> [st.counts EXCEPT ![d] = cnt],
                     warn |-> IF cnt > WarnAbove THEN st.warn \cup {d} ELSE st.warn,
                     abort |-> IF cnt > AbortAbove THEN Some(m) ELSE None,
                     examined |-> st.examined + 1]

\* the loop over procs[lo..hi] in order, the first half and then the second;
\* it is left as soon as hard_abort_item is set (line 1311)
RECURSIVE process_scan(_, _, _, _, _)
process_scan(queries, procs, lo, hi, st) ==
    IF lo > hi \/ ~IsNone(st.abort) THEN st
    ELSE IF lo = hi THEN process_one(queries, procs[lo], st)
    ELSE LET mid == (lo + hi) \div 2
         IN process_scan(queries, procs, mid + 1, hi,
                         process_scan(queries, procs, lo, mid, st))

\* name_display: the display name alone, or with the count and a mark
NameDisplay(disp, mark, cnt) == [disp |-> disp, mark |-> mark, cnt |-> cnt]

\* Metrics.process_status: the result list, and how many processes the loop
\* body ran for
process_status(self, procs) ==
    LET queries == self.process_queries
        disps == { queries[k].disp : k \in DOMAIN queries }
        st == process_scan(queries, procs, 1, Len(procs),
                           [counts |-> [d \in disps |-> 0], warn |-> {}, abort |-> None,
                            examined |-> 0])
    IN IF queries = <<>> THEN [result |-> <<>>, examined |-> 0]
       ELSE IF ~IsNone(st.abort)
       THEN LET d == queries[Val(st.abort)].disp
            IN [result |-> << [name |-> NameDisplay(d, "too_many_terminated", Some(st.counts[d])),
                               instances |-> st.counts[d]] >>,
                examined |-> st.examined]
       ELSE [result |-> [k \in DOMAIN queries |->
                           [name |-> IF queries[k].disp \in st.warn
                                     THEN NameDisplay(queries[k].disp, "too_many",
                                                      Some(st.counts[queries[k].disp]))
                                     ELSE NameDisplay(queries[k].disp, "plain", None),
                            instances |-> st.counts[queries[k].disp]]],
             examined |-> st.examined]

\* the executable paths of the processes: matching the pattern x (in upper
\* case), y, both, or neither
ProcKinds ==
    { [exe |-> <<"C",":","\\","X">>, raises |-> FALSE],
      [exe |-> <<"c",":","\\","y">>, raises |-> FALSE],
      [exe |-> <<"c",":","\\","x","\\","y">>, raises |-> FALSE],
      [exe |-> <<"c",":","\\","z">>, raises |-> FALSE] }

\* a process without a path, and one whose info raises
SkippedKinds ==
    { [exe |-> <<" ">>, raises |-> FALSE],
      [exe |-> <<>>, raises |-> TRUE] }

\* how many like processes follow one another: one, or just enough to pass a
\* threshold
RunLengths == {1, WarnAbove + 1, AbortAbove + 1}

Runs == [p : ProcKinds, n : RunLengths] \cup [p : SkippedKinds, n : {1}]

\* psutil.process_iter over a table given as runs
RECURSIVE Expand(_)
Expand(runs) ==
    IF runs = <<>> THEN <<>>
    ELSE [i \in 1..Head(runs).n |-> Head(runs).p] \o Expand(Tail(runs))

ProcTables == UNION { [1..n -> Runs] : n \in 0..MaxRuns }

\* process_queries: none, one, two with different display names, two with
\* the same display name, and the same item given twice
ProcQueries ==
    { <<>>,
      <<Query(<<"A">>, <<"x">>)>>,
      <<Query(<<"A">>, <<"x">>), Query(<<"B">>, <<"y">>)>>,
      <<Query(<<"B">>, <<"y">>), Query(<<"A">>, <<"x">>)>>,
      <<Query(<<"A">>, <<"x">>), Query(<<"A">>, <<"y">>)>>,
      <<Query(<<"x">>, <<"x">>), Query(<<"x">>, <<"x">>)>> }

ProcSelves ==
    { [sel_temp |-> None, sel_fan |-> None, lhm_ok |-> FALSE, wmi |-> FALSE,
       process_queries |-> q] : q \in ProcQueries }

ProcBackends ==
    { [Hardware |-> <<>>, hardware_raises |-> FALSE, zones |-> <<>>, zones_raise |-> FALSE,
       wfans |-> <<>>, wfans_raise |-> FALSE, processes |-> t] : t \in ProcTables }

\* ---- the construction of the reader ----
\* how far LibreHMReader.__init__ gets: pythonnet is missing, the assembly
\* cannot be referenced, the import fails, Computer.Open raises, the
\* self-check after Open raises, or all of it succeeds
LoadOutcomes == {"no_clr", "reference_raises", "import_raises", "open_raises",
                 "diagnose_raises", "opened"}

\* a plausible slip: ok set ahead of Open and left alone by the handler
LibreHMReader_init_early(outcome) ==
    [ok     |-> outcome \in {"open_raises", "diagnose_raises", "opened"},
     comp   |-> outcome \in {"diagnose_raises", "opened"},
     raised |-> FALSE]

\* LibreHMReader.__init__: ok and _comp are set after Open returned; the
\* self-check has its own handler; every other exception is caught at line
\* 265, which resets ok
LibreHMReader_init(outcome) ==
    [ok     |-> outcome \in {"diagnose_raises", "opened"},
     comp   |-> outcome \in {"diagnose_raises", "opened"},
     raised |-> FALSE]

\* ---- the specification ----
Kinds == {"stats", "gpu", "nic", "storage", "freq", "enum", "pinned", "edge", "proc"}

RqSelves(kind) ==
    IF kind \in {"stats", "edge"} THEN StatsSelves
    ELSE IF kind = "enum" THEN EnumSelves
    ELSE IF kind = "pinned" THEN PinnedSelves
    ELSE IF kind = "proc" THEN ProcSelves
    ELSE PlainSelves

RqBackends(kind) ==
    IF kind = "stats" THEN StatsBackends
    ELSE IF kind = "gpu" THEN TreeBackends(GpuShapes)
    ELSE IF kind = "nic" THEN TreeBackends(NicShapes)
    ELSE IF kind = "storage" THEN TreeBackends(StorageShapes)
    ELSE IF kind = "freq" THEN TreeBackends(FreqShapes)
    ELSE IF kind = "pinned" THEN PinnedBackends
    ELSE IF kind = "edge" THEN EdgeBackends
    ELSE IF kind = "proc" THEN ProcBackends
    ELSE EnumBackends

\* one call of Metrics.cpu_stats
RdCpuStats ==
    /\ rq_kind \in {"stats", "edge"}
    /\ rq_op = "none"
    /\ rq_op' = "cpu_stats"
    /\ rq_out' = cpu_stats(rq_self, rq_b)
    /\ UNCHANGED <<rq_kind, rq_self, rq_b>>
    /\ UNCHANGED <<mainVars, pickVars, loopVars>>

\* one call of LibreHMReader.gpu_mem_used_total_bytes
RdGpuMem ==
    /\ rq_kind = "gpu"
    /\ rq_op = "none"
    /\ rq_op' = "gpu_mem_used_total_bytes"
    /\ rq_out' = gpu_mem_used_total_bytes(rq_self, rq_b)
    /\ UNCHANGED <<rq_kind, rq_self, rq_b>>
    /\ UNCHANGED <<mainVars, pickVars, loopVars>>

\* one call of Metrics.net_io_rates, which calls nic_up_down_bps
RdNetIoRates ==
    /\ rq_kind = "nic"
    /\ rq_op = "none"
    /\ rq_op' = "net_io_rates"
    /\ rq_out' = net_io_rates(rq_self, rq_b)
    /\ UNCHANGED <<rq_kind, rq_self, rq_b>>
    /\ UNCHANGED <<mainVars, pickVars, loopVars>>

\* one call of Metrics.disk_io_rates, which calls storage_read_write_bps
RdDiskIoRates ==
    /\ rq_kind = "storage"
    /\ rq_op = "none"
    /\ rq_op' = "disk_io_rates"
    /\ rq_out' = disk_io_rates(rq_self, rq_b)
    /\ UNCHANGED <<rq_kind, rq_self, rq_b>>
    /\ UNCHANGED <<mainVars, pickVars, loopVars>>

\* one call of LibreHMReader.cpu_effective_freq_mhz
RdCpuFreq ==
    /\ rq_kind = "freq"
    /\ rq_op = "none"
    /\ rq_op' = "cpu_effective_freq_mhz"
    /\ rq_out' = cpu_effective_freq_mhz(rq_self, rq_b)
    /\ UNCHANGED <<rq_kind, rq_self, rq_b>>
    /\ UNCHANGED <<mainVars, pickVars, loopVars>>

\* one call of SensorSelector.list_temp_candidates
RdListTemp ==
    /\ rq_kind = "enum"
    /\ rq_op = "none"
    /\ rq_op' = "list_temp_candidates"
    /\ rq_out' = list_temp_candidates_x(rq_self, rq_b)
    /\ UNCHANGED <<rq_kind, rq_self, rq_b>>
    /\ UNCHANGED <<mainVars, pickVars, loopVars>>

\* one call of SensorSelector.list_fan_candidates
RdListFan ==
    /\ rq_kind = "enum"
    /\ rq_op = "none"
    /\ rq_op' = "list_fan_candidates"
    /\ rq_out' = list_fan_candidates_x(rq_self, rq_b)
    /\ UNCHANGED <<rq_kind, rq_self, rq_b>>
    /\ UNCHANGED <<mainVars, pickVars, loopVars>>

\* one call of SensorSelector.read_temp_c
RdReadTemp ==
    /\ rq_kind \in {"pinned", "edge"}
    /\ rq_op = "none"
    /\ rq_op' = "read_temp_c"
    /\ rq_out' = read_temp_c(rq_self, rq_b)
    /\ UNCHANGED <<rq_kind, rq_self, rq_b>>
    /\ UNCHANGED <<mainVars, pickVars, loopVars>>

\* one call of SensorSelector.read_fan_rpm
RdReadFan ==
    /\ rq_kind \in {"pinned", "edge"}
    /\ rq_op = "none"
    /\ rq_op' = "read_fan_rpm"
    /\ rq_out' = read_fan_rpm(rq_self, rq_b)
    /\ UNCHANGED <<rq_kind, rq_self, rq_b>>
    /\ UNCHANGED <<mainVars, pickVars, loopVars>>

\* one call of Metrics.process_status
RdProcessStatus ==
    /\ rq_kind = "proc"
    /\ rq_op = "none"
    /\ rq_op' = "process_status"
    /\ rq_out' = process_status(rq_self, Expand(rq_b.processes))
    /\ UNCHANGED <<rq_kind, rq_self, rq_b>>
    /\ UNCHANGED <<mainVars, pickVars, loopVars>>

InitRead ==
    /\ rq_kind \in Kinds
    /\ rq_self \in RqSelves(rq_kind)
    /\ rq_b \in RqBackends(rq_kind)
    /\ rq_op = "none"
    /\ rq_out = None
    /\ MainIdle
    /\ PickIdle
    /\ LoopIdle

NextRead ==
    \/ RdCpuStats
    \/ RdGpuMem
    \/ RdNetIoRates
    \/ RdDiskIoRates
    \/ RdCpuFreq
    \/ RdListTemp
    \/ RdListFan
    \/ RdReadTemp
    \/ RdReadFan
    \/ RdProcessStatus

SpecRead == InitRead /\ [][NextRead]_vars

----------------------------------------------------------------------------
(* Loop specification: the "while True" of main() in src/WebMmonitor.py, one
   action per iteration, with Metrics.net_io_rates, disk_io_rates and
   tick_time as far as they touch the raw-counter baselines *)

\* the steps of the loop body in program order
Steps ==
    << "collect_cpu", "cpu_stats", "net_io_rates", "disk_io_rates", "process_status",
       "top_procs", "db_inserts", "series", "mem_line", "disk_line", "gpu_mem",
       "write_data_js", "ensure_files" >>

StepSet == { Steps[k] : k \in DOMAIN Steps }

\* the collectors among them
Collectors ==
    { "collect_cpu", "cpu_stats", "net_io_rates", "disk_io_rates", "process_status",
      "top_procs", "gpu_mem" }

\* the steps that run only with a database attached (lines 442, 499)
DbSteps == { "db_inserts", "series" }

\* a plausible slip: cpu_stats called outside a try of its own
GuardedButCpuStats == StepSet \ { "series", "cpu_stats" }

\* the steps that sit in a try/except of their own; db.query for the series
\* (line 500) is only inside the outer try
Guarded == StepSet \ { "series" }

\* the steps that raise in one tick: none, any one, every collector, or
\* every step
FailSets == { {} } \cup { {s} : s \in StepSet } \cup { Collectors, StepSet }

\* time.time() - loop_start at the end of a body, in seconds
Elapsed == { 1, DEFAULT_INTERVAL + 2 }

\* the native tree a tick finds: with or without an adapter and a drive
\* that report throughput
TickBackends ==
    { Backend(n \o d, <<>>, <<>>) :
        n \in { <<>>, <<NicNode(Some(12500000), Some(0))>> },
        d \in { <<>>, <<DiskNode(Some(12500000), Some(0))>> } }

\* lines 379-642: the steps reached when those in fails raise, and whether
\* the outer handler was entered
LoopBody(fails, db) ==
    LET Present(s) == db \/ s \notin DbSteps
        todo == SelectSeq(Steps, Present)
        stops == { k \in DOMAIN todo : todo[k] \in fails /\ todo[k] \notin Guarded }
        last == IF stops = {} THEN Len(todo)
                ELSE CHOOSE k \in stops : \A j \in stops : k <= j
    IN [ran |-> { todo[k] : k \in 1..last }, aborted |-> stops # {}]

\* lines 1119-1127 and 1140-1155: the raw-counter tier runs when the native
\* tier did not return; it subtracts the baseline, divides by the time since
\* prev_time and replaces the baseline, unless the psutil call raises
RawCounters(reached, native, raises, baseline, prev_time) ==
    IF ~reached \/ native \/ raises THEN None
    ELSE Some([bytes_since |-> baseline, time_since |-> prev_time])

\* whether the native tier of net_io_rates / disk_io_rates returns, for
\* LibreHMReader.ok and each tree
NativeServes ==
    [l \in BOOLEAN |->
        [b \in TickBackends |->
            [net |-> net_io_rates([FreshSelf EXCEPT !.lhm_ok = l], b).tier = "lhm",
             disk |-> disk_io_rates([FreshSelf EXCEPT !.lhm_ok = l], b).tier = "lhm"]]]

\* one iteration of the loop, lines 377-647
LoopTick ==
    /\ lp_n < MaxTicks
    /\ \E fails \in FailSets, b \in TickBackends, elapsed \in Elapsed :
         LET body == LoopBody(fails, lp_env.db)
             net_native == NativeServes[lp_env.lhm_ok][b].net
             disk_native == NativeServes[lp_env.lhm_ok][b].disk
             net == RawCounters("net_io_rates" \in body.ran, net_native,
                                "net_io_rates" \in fails, lp_prev.prev_net, lp_prev.prev_time)
             disk == RawCounters("disk_io_rates" \in body.ran, disk_native,
                                 "disk_io_rates" \in fails, lp_prev.prev_disks, lp_prev.prev_time)
             raised == { s \in body.ran \cap fails :
                            /\ s = "net_io_rates" => ~net_native
                            /\ s = "disk_io_rates" => ~disk_native }
         IN /\ lp_n' = lp_n + 1
            /\ lp_last' = [ran |-> body.ran,
                           failed |-> raised,
                           aborted |-> body.aborted,
                           written |-> "write_data_js" \in body.ran \ fails,
                           tick_time |-> TRUE,
                           elapsed |-> elapsed,
                           to_sleep |-> IF DEFAULT_INTERVAL - elapsed > 0
                                        THEN DEFAULT_INTERVAL - elapsed ELSE 0,
                           net |-> net,
                           disk |-> disk]
            /\ lp_prev' = [prev_net |-> IF net # None THEN lp_n + 1 ELSE lp_prev.prev_net,
                           prev_disks |-> IF disk # None THEN lp_n + 1 ELSE lp_prev.prev_disks,
                           prev_time |-> lp_n + 1]
    /\ UNCHANGED lp_env
    /\ UNCHANGED <<mainVars, pickVars, readVars>>

InitLoop ==
    /\ lp_env \in [lhm_ok : BOOLEAN, db : BOOLEAN]
    /\ lp_n = 0
    /\ lp_prev = Prev0
    /\ lp_last = Tick_0
    /\ MainIdle
    /\ PickIdle
    /\ ReadIdle

NextLoop == LoopTick

SpecLoop == InitLoop /\ [][NextLoop]_vars

----------------------------------------------------------------------------
(* Claims about the AutoPicker, checked under SpecPick *)

\* the positions of a list whose candidate satisfies P
Positions(l, P(_)) == {i \in 1..Len(l) : P(l[i])}

PlausibleTemp(c) == c.value # None /\ Val(c.value) > 50 /\ Val(c.value) < 12000
PlausibleFan(c) == c.value # None /\ Val(c.value) >= 100 /\ Val(c.value) < 2000000

\* which of the display names of PickNames hold a keyword of the kind
NamesCpuTemp == { <<"C","P","U">>, <<"T","d","i","e">> }
NamesCpuFan == { <<"C","P","U">>, <<"P","u","m","p">> }

\* r is the candidate at one of the positions I of l, and none of them has a larger value
IsMaxOf(r, l, I) ==
    /\ \E i \in I : r = Some(l[i])
    /\ \A j \in I : Val(l[j].value) <= Val(Val(r).value)

\* C1: whatever the list, the temperature picker returns nothing or a
\* candidate of the list whose value v has 0.5 < v < 120.0, the fan picker
\* nothing or a candidate with 1.0 <= v < 20000.0; a candidate whose value is
\* absent is never returned.
C1_PickedValueInBounds ==
    \A i \in pk_called :
        \/ pk_res[i] = None
        \/ /\ \E k \in 1..Len(pk_list) : pk_res[i] = Some(pk_list[k])
           /\ Val(pk_res[i]).value # None
           /\ IF pk_kind = "temp" THEN PlausibleTemp(Val(pk_res[i]))
                                  ELSE PlausibleFan(Val(pk_res[i]))

\* a pick was made from a list that also holds a candidate at the excluded
\* end of the interval and one without a value
C1_Witness ==
    /\ pk_called # {}
    /\ \E i \in pk_called : pk_res[i] # None
    /\ \E k \in 1..Len(pk_list) : pk_list[k].value \in {Some(50), Some(12000), Some(99), Some(2000000), None}

C3_TempTiers ==
    \A i \in pk_called : pk_kind = "temp" =>
        LET T1(c) == c.type = "LHM" /\ c.name \in NamesCpuTemp /\ PlausibleTemp(c)
            T2(c) == c.type = "WMI_ACPI" /\ PlausibleTemp(c)
            I1 == Positions(pk_list, T1)
            I2 == Positions(pk_list, T2)
        IN /\ I1 # {} => IsMaxOf(pk_res[i], pk_list, I1)
           /\ I1 = {} /\ I2 # {} => IsMaxOf(pk_res[i], pk_list, I2)
           /\ I1 = {} /\ I2 = {} => pk_res[i] = None
           /\ pk_res[i] # None /\ Val(pk_res[i]).type = "LHM"
                => Val(pk_res[i]).name \in NamesCpuTemp

\* a keyword-matching NativeLib candidate was picked although a WMI_ACPI
\* candidate of the list has the larger value
C3_Witness ==
    /\ pk_kind = "temp"
    /\ \E i \in pk_called :
         /\ pk_res[i] # None
         /\ Val(pk_res[i]).type = "LHM"
         /\ Val(pk_res[i]).value = Some(4500)
         /\ \E k \in 1..Len(pk_list) :
              pk_list[k].type = "WMI_ACPI" /\ pk_list[k].value = Some(7200)

\* C4: fan tiers. The result is a maximum-valued candidate of the first
\* non-empty tier among (1) plausible NativeLib candidates named cpu/aio/pump,
\* (2) plausible NativeLib candidates, (3) plausible WMI_FAN candidates, and
\* nothing when all three are empty; a lower tier never wins over a higher one.
C4_FanTiers ==
    \A i \in pk_called : pk_kind = "fan" =>
        LET T1(c) == c.type = "LHM" /\ c.name \in NamesCpuFan /\ PlausibleFan(c)
            T2(c) == c.type = "LHM" /\ PlausibleFan(c)
            T3(c) == c.type = "WMI_FAN" /\ PlausibleFan(c)
            I1 == Positions(pk_list, T1)
            I2 == Positions(pk_list, T2)
            I3 == Positions(pk_list, T3)
        IN /\ I1 # {} => IsMaxOf(pk_res[i], pk_list, I1)
           /\ I1 = {} /\ I2 # {} => IsMaxOf(pk_res[i], pk_list, I2)
           /\ I1 = {} /\ I2 = {} /\ I3 # {} => IsMaxOf(pk_res[i], pk_list, I3)
           /\ I1 = {} /\ I2 = {} /\ I3 = {} => pk_res[i] = None

\* a NativeLib candidate without keyword was picked although a WMI_FAN
\* candidate of the list has the larger value
C4_Witness ==
    /\ pk_kind = "fan"
    /\ \E i \in pk_called :
         /\ pk_res[i] # None
         /\ Val(pk_res[i]).type = "LHM"
         /\ Val(pk_res[i]).name \notin NamesCpuFan
         /\ Val(pk_res[i]).value = Some(100)
         /\ \E k \in 1..Len(pk_list) :
              pk_list[k].type = "WMI_FAN" /\ pk_list[k].value = Some(120000)

----------------------------------------------------------------------------
(* SelectionStore and the start of the process *)

\* C5: a successful _save_config followed by _load_config on the same path
\* leaves sel_temp and sel_fan equal to the saved pair, also when one or both
\* are absent and when a selection's value is null.
C5_SaveLoadRoundTrip ==
    (trace.loaded /\ written # None)
        => sel_temp = Val(written)[1] /\ sel_fan = Val(written)[2]

\* a pair with an absent temperature selection and a fan selection whose
\* value is null has been saved and loaded
C5_Witness ==
    /\ trace.loaded
    /\ written # None
    /\ Val(written)[1] = None
    /\ Val(written)[2] # None
    /\ Val(Val(written)[2]).value = None

\* C6: when the file exists but does not parse (malformed JSON, or JSON
\* that is no object), _load_config returns false and ensure_selection runs
\* the whole procedure: temperature enumeration and choice, fan enumeration
\* and choice, and a save.
C6_UnparsableFileFullProcedure ==
    (pc = "ready" /\ trace.start_file \in {"malformed", "nonobject"})
        => /\ ~trace.loaded
           /\ trace.temp_listed /\ trace.temp_fixed
           /\ trace.fan_listed /\ trace.fan_fixed
           /\ trace.save_called

\* C7: on a cold start no read_temp_c or read_fan_rpm is served before
\* _save_config has been invoked with both selections, on every path out of
\* ensure_selection, the ones that end with a swallowed exception included.
C7_NoReadBeforeSave ==
    (~trace.loaded /\ trace.reads)
        => trace.save_called /\ trace.temp_fixed /\ trace.fan_fixed

\* C8: when the file parses, ensure_selection sets sel_temp and sel_fan to
\* exactly the file's temp_source and fan_source and returns: no candidates
\* enumerated, no prompt, no AutoPicker, no write; also for stored nulls.
C8_WarmStartVerbatim ==
    trace.loaded
        => /\ FileKind(file) = "object"
           /\ dump_selection(sel_temp) = json_get(Val(file), "temp_source")
           /\ dump_selection(sel_fan) = json_get(Val(file), "fan_source")
           /\ ~trace.temp_listed /\ ~trace.fan_listed
           /\ ~trace.prompted /\ ~trace.picker_ran
           /\ ~trace.save_called

\* stored nulls were loaded and stay unset over a tick whose backend shows
\* temperature and fan candidates
C8_Witness ==
    /\ trace.loaded
    /\ sel_temp = None /\ sel_fan = None
    /\ tick.done
    /\ tick.temp_ids # {} /\ tick.fan_ids # {}

----------------------------------------------------------------------------
(* Pinned reads over the ticks *)

\* C9: with a pinned temperature identifier and a backend that reports no
\* candidates (no sensor with that identifier in the tree, no WMI records),
\* read_temp_c returns absent, never the value stored in the Selection; the
\* same for read_fan_rpm.
C9_ZeroCandidatesReadAbsent ==
    tick.done =>
        /\ (sel_temp # None /\ (tick.temp_ids = {} \/ Val(sel_temp).id \notin tick.temp_ids))
               => tick.rd_temp = None
        /\ (sel_fan # None /\ (tick.fan_ids = {} \/ Val(sel_fan).id \notin tick.fan_ids))
               => tick.rd_fan = None

\* a temperature and a fan selection, both stored with a value, read against
\* a backend that shows no candidate at all
C9_Witness ==
    /\ tick.done
    /\ sel_temp # None /\ Val(sel_temp).value # None
    /\ sel_fan # None /\ Val(sel_fan).value # None
    /\ tick.temp_ids = {} /\ tick.fan_ids = {}

\* C10: after ensure_selection has returned, every call of read_temp_c,
\* read_fan_rpm and cpu_stats, whatever it returns, leaves sel_temp, sel_fan
\* and the persisted file unchanged.
C10_NoReselection ==
    [][(pc = "ready" /\ pc' = "ready")
          => sel_temp' = sel_temp /\ sel_fan' = sel_fan /\ file' = file]_vars

\* the pinned temperature source read absent while the backend showed other
\* temperature candidates, and the temperature came from a fallback
C10_Witness ==
    /\ tick.done
    /\ sel_temp # None
    /\ tick.rd_temp = None
    /\ tick.temp_ids # {}
    /\ tick.package_temp_c # None

----------------------------------------------------------------------------
(* The selection procedure: prompts, headless start, failing save *)

\* the AutoPicker's result for a list the backend can show to this process
IsAutoTemp(r) == \E b \in Backends : r = _auto_pick_temp(Self, list_temp_candidates(Self, b))
IsAutoFan(r) == \E b \in Backends : r = _auto_pick_fan(Self, list_fan_candidates(Self, b))

\* C12: at a prompt (terminal attached, list not empty), temperature and fan
\* alike, an empty line gives the AutoPicker's result, a numeric index in
\* range pins that candidate, and every other line (out of range, negative,
\* no number, any digit-like character) leaves the selection unset and
\* prompts again, without raising and without ending the procedure.
C12_InteractiveChoice ==
    [][ /\ (pc = "temp_prompt" /\ pc' # "boot" /\ trace'.raised # "EOFError")
            => /\ trace'.raised = "none"
               /\ \/ pc' = "temp_prompt" /\ sel_temp' = None /\ ~trace'.temp_fixed
                  \/ /\ trace'.temp_fixed
                     /\ \/ \E i \in 1..Len(temps) : sel_temp' = Some(temps[i])
                        \/ sel_temp' = _auto_pick_temp(Self, temps)
        /\ (pc = "fan_prompt" /\ pc' # "boot" /\ trace'.raised # "EOFError")
            => /\ trace'.raised = "none"
               /\ \/ pc' = "fan_prompt" /\ sel_fan' = None /\ ~trace'.fan_fixed
                  \/ /\ trace'.fan_fixed
                     /\ \/ \E i \in 1..Len(fans) : sel_fan' = Some(fans[i])
                        \/ sel_fan' = _auto_pick_fan(Self, fans) ]_vars

\* C13: without a terminal ensure_selection never reads operator input, both
\* selections are the AutoPicker's results for the lists enumerated, and the
\* save step is reached without waiting; no tick reads operator input.
C13_HeadlessStart ==
    [][ /\ trace'.headless => ~trace'.prompted /\ ~trace'.invalid /\ trace'.raised = "none"
        /\ (pc = "boot" /\ trace'.headless)
            => /\ pc' = "ready"
               /\ trace'.picker_ran /\ trace'.temp_fixed /\ trace'.fan_fixed
               /\ trace'.save_called
               /\ IsAutoTemp(sel_temp') /\ IsAutoFan(sel_fan')
        /\ (pc = "ready" /\ pc' = "ready")
            => trace'.prompted = trace.prompted /\ trace'.invalid = trace.invalid ]_vars

\* a headless start has pinned a temperature and a fan source, saved, and
\* served a tick
C13_Witness ==
    /\ trace.headless
    /\ pc = "ready"
    /\ sel_temp # None /\ sel_fan # None
    /\ trace.save_called
    /\ tick.done

\* C14: when writing the selection file fails, _save_config and
\* ensure_selection return normally, sel_temp and sel_fan keep the chosen
\* values and the reads of this process resolve against them; the file is not
\* loadable, so the next process start runs the selection procedure again.
C14_SaveFailureNonFatal ==
    trace.save_failed
        => /\ pc = "ready"
           /\ trace.raised = "none"
           /\ trace.temp_fixed /\ trace.fan_fixed
           /\ ~_load_config(file).ok
           /\ tick.done =>
                /\ tick.rd_temp # None
                     => sel_temp # None /\ Val(sel_temp).id \in tick.temp_ids
                /\ tick.rd_fan # None
                     => sel_fan # None /\ Val(sel_fan).id \in tick.fan_ids

\* the write failed after a choice at the prompt, and a tick then read the
\* chosen temperature source
C14_Witness ==
    /\ trace.save_failed
    /\ trace.prompted
    /\ sel_temp # None
    /\ tick.done
    /\ tick.rd_temp # None

----------------------------------------------------------------------------
(* Claims about the readers, checked under SpecRead *)

\* the first present value of three tiers
Layered(pinned, native, os) ==
    IF pinned # None THEN pinned ELSE IF native # None THEN native ELSE os

\* C11: cpu_stats reports, for temperature and for fan speed separately, the
\* pinned source's value when present, else the native fallback's value when
\* present, else the WMI fallback's value; a lower tier is queried only when
\* every higher tier returned absent; an absent or failing temperature path
\* does not keep the fan value from being obtained, and the reverse.
C11_LayeredFallback ==
    rq_op = "cpu_stats" =>
        LET pt == read_temp_c(rq_self, rq_b)
            pf == read_fan_rpm(rq_self, rq_b)
            nt == cpu_package_temp_c(rq_self, rq_b)
            nf == cpu_fan_rpm(rq_self, rq_b)
        IN /\ rq_out.package_temp_c = Layered(pt, nt, _cpu_package_temp_wmi(rq_self, rq_b))
           /\ rq_out.fan_rpm = Layered(pf, nf, _cpu_fan_rpm_wmi(rq_self, rq_b))
           /\ "cpu_package_temp_c" \in rq_out.queried => pt = None
           /\ "cpu_fan_rpm" \in rq_out.queried => pf = None
           /\ "_cpu_package_temp_wmi" \in rq_out.queried => pt = None /\ nt = None
           /\ "_cpu_fan_rpm_wmi" \in rq_out.queried => pf = None /\ nf = None

\* the OS temperature query fails and every temperature tier is absent, while
\* the pinned fan source is absent and the fan value comes from the native
\* fallback
C11_Witness ==
    /\ rq_op = "cpu_stats"
    /\ rq_self.sel_temp # None /\ rq_self.sel_fan # None
    /\ rq_b.zones_raise
    /\ rq_out.package_temp_c = None
    /\ "_cpu_package_temp_wmi" \in rq_out.queried
    /\ rq_out.rd_fan = None
    /\ rq_out.fan_rpm # None
    /\ "cpu_fan_rpm" \in rq_out.queried
    /\ "_cpu_fan_rpm_wmi" \notin rq_out.queried

----------------------------------------------------------------------------
(* Claims about the aggregate readers *)

\* some access fails somewhere in the node hw
RECURSIVE NodeFails(_)
NodeFails(hw) ==
    \/ hw.sensors_raise
    \/ hw.subs_raise
    \/ \E k \in DOMAIN hw.Sensors : hw.Sensors[k].raises
    \/ \E k \in DOMAIN hw.SubHardware : NodeFails(hw.SubHardware[k])

\* nothing in the snapshot fails
NoFailure(b) ==
    /\ ~b.hardware_raises /\ ~b.zones_raise /\ ~b.wfans_raise
    /\ \A i \in DOMAIN b.Hardware : ~NodeFails(b.Hardware[i])

IsAdapter(hw) == hw.HardwareType = <<"N","e","t","w","o","r","k">>
IsDrive(hw) == hw.HardwareType = <<"S","t","o","r","a","g","e">> \/ Contains(hw.Name, <<"S","T">>)
IsGpuNode(hw) == Contains(hw.HardwareType, <<"G","p","u">>)
IsCpuNode(hw) == hw.HardwareType = <<"C","p","u">>
IsRate(s) ==
    /\ s.SensorType = "Throughput"
    /\ s.Value # None
    /\ \/ Contains(s.Name, <<"U","p","l","o","a","d">>) \/ Contains(s.Name, <<"D","o","w","n","l","o","a","d">>)
       \/ Contains(s.Name, <<"R","e","a","d"," ","R","a","t","e">>) \/ Contains(s.Name, <<"W","r","i","t","e"," ","R","a","t","e">>)

\* a throughput sensor with a value on a matching node
Found(b, IsNode(_)) ==
    \E i \in DOMAIN b.Hardware : \E k \in DOMAIN b.Hardware[i].Sensors :
        IsNode(b.Hardware[i]) /\ IsRate(b.Hardware[i].Sensors[k])

\* every such sensor reports 0
AllZero(b, IsNode(_)) ==
    \A i \in DOMAIN b.Hardware : \A k \in DOMAIN b.Hardware[i].Sensors :
        IsNode(b.Hardware[i]) /\ IsRate(b.Hardware[i].Sensors[k])
            => b.Hardware[i].Sensors[k].Value = Some(0)

\* C15: nic_up_down_bps and storage_read_write_bps return (absent, absent)
\* only when no contributing throughput sensor was found on a matching node;
\* when such sensors are found and all report 0 the result is (0, 0) and the
\* caller stays on the native tier.
C15_ZeroIsNotAbsent ==
    /\ (rq_op = "net_io_rates" /\ rq_self.lhm_ok /\ NoFailure(rq_b)) =>
          /\ rq_out.pair = <<None, None>> => ~Found(rq_b, IsAdapter)
          /\ (Found(rq_b, IsAdapter) /\ AllZero(rq_b, IsAdapter)) =>
                rq_out.pair = <<Some(0), Some(0)>> /\ rq_out.tier = "lhm"
    /\ (rq_op = "disk_io_rates" /\ rq_self.lhm_ok /\ NoFailure(rq_b)) =>
          /\ rq_out.pair = <<None, None>> => ~Found(rq_b, IsDrive)
          /\ (Found(rq_b, IsDrive) /\ AllZero(rq_b, IsDrive)) =>
                rq_out.pair = <<Some(0), Some(0)>> /\ rq_out.tier = "lhm"

\* the (node, sensor) positions of the top-level nodes
SensorPositions(b) ==
    UNION { { <<i, k>> : k \in DOMAIN b.Hardware[i].Sensors } : i \in DOMAIN b.Hardware }

\* the sum of the values of the sensors called name on the nodes IsNode accepts
NamedSum(b, IsNode(_), name) ==
    SumFn([p \in { q \in SensorPositions(b) :
                     /\ IsNode(b.Hardware[q[1]])
                     /\ b.Hardware[q[1]].Sensors[q[2]].Name = name
                     /\ b.Hardware[q[1]].Sensors[q[2]].Value # None }
             |-> Val(b.Hardware[p[1]].Sensors[p[2]].Value)])

\* the node has a sensor called name that reports a value
Reports(hw, name) ==
    \E k \in DOMAIN hw.Sensors : hw.Sensors[k].Name = name /\ hw.Sensors[k].Value # None

\* C16: gpu_mem_used_total_bytes returns (the sum over GPU nodes of used MB x
\* 1,000,000, the sum of total MB x 1,000,000); nic_up_down_bps returns
\* (8 x the sum of upload bytes/s over all adapters, 8 x the sum of download
\* bytes/s). Byte counts are in units of 1000 bytes, rates in hundredths.
C16_ReferenceSums ==
    /\ ( /\ rq_op = "gpu_mem_used_total_bytes" /\ rq_self.lhm_ok /\ NoFailure(rq_b)
         /\ \E i \in DOMAIN rq_b.Hardware : IsGpuNode(rq_b.Hardware[i])
         /\ \A i \in DOMAIN rq_b.Hardware : IsGpuNode(rq_b.Hardware[i]) =>
                /\ Reports(rq_b.Hardware[i], <<"G","P","U"," ","M","e","m","o","r","y"," ","U","s","e","d">>)
                /\ Reports(rq_b.Hardware[i], <<"G","P","U"," ","M","e","m","o","r","y"," ","T","o","t","a","l">>) )
       => rq_out = << Some(NamedSum(rq_b, IsGpuNode, <<"G","P","U"," ","M","e","m","o","r","y"," ","U","s","e","d">>) * 1000),
                      Some(NamedSum(rq_b, IsGpuNode, <<"G","P","U"," ","M","e","m","o","r","y"," ","T","o","t","a","l">>) * 1000) >>
    /\ (rq_op = "net_io_rates" /\ rq_self.lhm_ok /\ NoFailure(rq_b) /\ Found(rq_b, IsAdapter))
       => rq_out.pair = << Some((8 * NamedSum(rq_b, IsAdapter, <<"U","p","l","o","a","d"," ","S","p","e","e","d">>)) \div 100),
                           Some((8 * NamedSum(rq_b, IsAdapter, <<"D","o","w","n","l","o","a","d"," ","S","p","e","e","d">>)) \div 100) >>

\* the positions of the effective-clock sensors with a value on CPU nodes
EffectiveClocks(b) ==
    { q \in SensorPositions(b) :
        /\ IsCpuNode(b.Hardware[q[1]])
        /\ b.Hardware[q[1]].Sensors[q[2]].SensorType = "Clock"
        /\ Contains(b.Hardware[q[1]].Sensors[q[2]].Name, <<"E","f","f","e","c","t","i","v","e">>)
        /\ b.Hardware[q[1]].Sensors[q[2]].Value # None }

\* C17: cpu_effective_freq_mhz returns the average of the values of all
\* effective-clock sensors found on CPU nodes, absent when there is none; no
\* other sensor contributes and every effective-clock sensor with a value does.
C17_EffectiveAverage ==
    (rq_op = "cpu_effective_freq_mhz" /\ rq_self.lhm_ok /\ NoFailure(rq_b)) =>
        LET E == EffectiveClocks(rq_b)
        IN IF E = {} THEN rq_out = None
           ELSE rq_out = Some(SumFn([p \in E |-> Val(rq_b.Hardware[p[1]].Sensors[p[2]].Value)])
                              \div Cardinality(E))

\* the traversal of the nodes IsNode accepts meets an exception
Raised(b, IsNode(_)) ==
    \/ b.hardware_raises
    \/ \E i \in DOMAIN b.Hardware :
          /\ IsNode(b.Hardware[i])
          /\ \/ b.Hardware[i].sensors_raise
             \/ \E k \in DOMAIN b.Hardware[i].Sensors : b.Hardware[i].Sensors[k].raises

\* C18: for each aggregate reader an exception raised while traversing nodes
\* or sensors makes the whole call return absent (absent-absent for the pair
\* readers), never a partial aggregate of what was visited before the failure.
C18_FailureCollapses ==
    /\ (rq_op = "gpu_mem_used_total_bytes" /\ rq_self.lhm_ok /\ Raised(rq_b, IsGpuNode))
          => rq_out = <<None, None>>
    /\ (rq_op = "net_io_rates" /\ rq_self.lhm_ok /\ Raised(rq_b, IsAdapter))
          => rq_out.pair = <<None, None>>
    /\ (rq_op = "disk_io_rates" /\ rq_self.lhm_ok /\ Raised(rq_b, IsDrive))
          => rq_out.pair = <<None, None>>
    /\ (rq_op = "cpu_effective_freq_mhz" /\ rq_self.lhm_ok /\ Raised(rq_b, IsCpuNode))
          => rq_out = None

----------------------------------------------------------------------------
(* Claims about the enumerators *)

\* C19: list_temp_candidates and list_fan_candidates never raise, whatever
\* fails in the native backend or in the WMI queries; with no hardware node
\* and no WMI record they return the empty list.
C19_NeverRaises ==
    /\ rq_op \in {"list_temp_candidates", "list_fan_candidates"} => ~rq_out.exc
    /\ (rq_op = "list_temp_candidates" /\ rq_b.Hardware = <<>> /\ rq_b.zones = <<>>)
          => rq_out.val = <<>>
    /\ (rq_op = "list_fan_candidates" /\ rq_b.Hardware = <<>> /\ rq_b.wfans = <<>>)
          => rq_out.val = <<>>

\* the WMI query raises and a node of the tree fails, and the candidates of
\* the readable sensors are returned
C19_Witness ==
    /\ rq_op = "list_temp_candidates"
    /\ rq_self.lhm_ok /\ rq_self.wmi
    /\ rq_b.zones_raise /\ rq_b.zones # <<>>
    /\ \E i \in DOMAIN rq_b.Hardware : NodeFails(rq_b.Hardware[i])
    /\ ~rq_out.exc
    /\ rq_out.val # <<>>

\* the sensors of one kind in depth-first order, a node's own sensors before
\* those of its sub-hardware
RECURSIVE TreeOrder(_, _), ForestOrder(_, _)
TreeOrder(hw, type) ==
    LET OfKind(s) == s.SensorType = type
    IN SelectSeq(hw.Sensors, OfKind) \o ForestOrder(hw.SubHardware, type)
ForestOrder(nodes, type) ==
    IF nodes = <<>> THEN <<>>
    ELSE TreeOrder(Head(nodes), type) \o ForestOrder(Tail(nodes), type)

\* out is exactly the candidates of the sensors nat followed by one candidate
\* of type wtype per record, numbered from 0
ExactList(out, nat, wtype, prefix, nrec) ==
    /\ Len(out) = Len(nat) + nrec
    /\ \A j \in 1..Len(nat) :
          /\ out[j].type = "LHM"
          /\ out[j].id = nat[j].Identifier
          /\ out[j].value = nat[j].Value
    /\ \A j \in 1..nrec :
          /\ out[Len(nat) + j].type = wtype
          /\ out[Len(nat) + j].id = prefix \o <<Digits[j]>>

\* C20: the candidate list is one NativeLib candidate per sensor of the kind
\* in the hardware tree, depth-first with a parent's sensors before its
\* children's, then one OSManagement candidate per record in enumeration
\* order with its position as index; nothing is left out for its value, and no
\* NativeLib candidate follows an OSManagement candidate.
C20_ExactList ==
    /\ (rq_op = "list_temp_candidates" /\ NoFailure(rq_b)) =>
          ExactList(rq_out.val,
                    IF rq_self.lhm_ok THEN ForestOrder(rq_b.Hardware, T_Temperature) ELSE <<>>,
                    "WMI_ACPI", <<"W","M","I",":","A","C","P","I",":">>,
                    IF rq_self.wmi THEN Len(rq_b.zones) ELSE 0)
    /\ (rq_op = "list_fan_candidates" /\ NoFailure(rq_b)) =>
          ExactList(rq_out.val,
                    IF rq_self.lhm_ok THEN ForestOrder(rq_b.Hardware, T_Fan) ELSE <<>>,
                    "WMI_FAN", <<"W","M","I",":","F","A","N",":">>,
                    IF rq_self.wmi THEN Len(rq_b.wfans) ELSE 0)

\* a tree with sensors of the kind on a node and on its sub-hardware, sensors
\* without a value and with the value 0, and two thermal zone records
C20_Witness ==
    /\ rq_op = "list_temp_candidates"
    /\ NoFailure(rq_b) /\ rq_self.lhm_ok /\ rq_self.wmi
    /\ Len(rq_b.zones) = 2
    /\ \E i \in DOMAIN rq_b.Hardware :
          /\ rq_b.Hardware[i].SubHardware # <<>>
          /\ Len(TreeOrder(rq_b.Hardware[i], T_Temperature)) = 2
    /\ \E j \in DOMAIN rq_out.val : rq_out.val[j].type = "LHM" /\ rq_out.val[j].value = None
    /\ \E j \in DOMAIN rq_out.val : rq_out.val[j].type = "LHM" /\ rq_out.val[j].value = Some(0)
    /\ rq_out.val[Len(rq_out.val)].id = <<"W","M","I",":","A","C","P","I",":","1">>

----------------------------------------------------------------------------
(* Claims about the pinned reads, checked under SpecRead *)

\* C21: a pinned WMI selection whose identifier ends in index i is read from
\* the record at position i of the enumeration made at read time (tenths of
\* a Kelvin converted to Celsius; the fan's current speed, else its desired
\* speed); the read is absent when i is not below the record count, when
\* that record has no value, or when WMI is unavailable.
C21_PinnedIndexRead ==
    /\ (rq_op = "read_temp_c" /\ ~IsNone(rq_self.sel_temp)) =>
          \A i \in 0..9 :
             Val(rq_self.sel_temp).id = <<"W","M","I",":","A","C","P","I",":">> \o <<Digits[i + 1]>> =>
                LET rec == rq_b.zones[i + 1]
                    raw == IF rec.CurrentTemperature # None THEN rec.CurrentTemperature
                           ELSE rec.Temperature
                IN rq_out = IF rq_self.wmi /\ ~rq_b.zones_raise /\ i < Len(rq_b.zones) /\ raw # None
                            THEN Some(Val(raw) * 10 - 27315)
                            ELSE None
    /\ (rq_op = "read_fan_rpm" /\ ~IsNone(rq_self.sel_fan)) =>
          \A i \in 0..9 :
             Val(rq_self.sel_fan).id = <<"W","M","I",":","F","A","N",":">> \o <<Digits[i + 1]>> =>
                LET rec == rq_b.wfans[i + 1]
                    raw == IF rec.Speed # None THEN rec.Speed ELSE rec.DesiredSpeed
                IN rq_out = IF rq_self.wmi /\ ~rq_b.wfans_raise /\ i < Len(rq_b.wfans) /\ raw # None
                            THEN Some(Val(raw) * 100)
                            ELSE None

\* the selection was pinned with index 1 and the value 30.0; the enumeration
\* at read time has three records and the second one is returned
C21_Witness ==
    /\ rq_op = "read_temp_c"
    /\ ~IsNone(rq_self.sel_temp)
    /\ Val(rq_self.sel_temp).id = <<"W","M","I",":","A","C","P","I",":","1">>
    /\ Len(rq_b.zones) = 3
    /\ rq_out = Some(5005)

----------------------------------------------------------------------------
(* Claims about the driver loop, checked under SpecLoop *)

\* C22: within one tick a failing collector stops neither the other
\* collectors nor the writing of the data file; whatever fails, the tick ends
\* with tick_time and one sleep of max(0, interval - elapsed), and the loop
\* goes on to the next tick.
C22_TickIsolation ==
    lp_n > 0 =>
        /\ lp_last.failed \subseteq Collectors =>
              /\ Collectors \subseteq lp_last.ran
              /\ lp_last.written
        /\ lp_last.tick_time
        /\ lp_last.to_sleep >= 0
        /\ lp_last.to_sleep >= DEFAULT_INTERVAL - lp_last.elapsed
        /\ lp_last.to_sleep = 0 \/ lp_last.to_sleep = DEFAULT_INTERVAL - lp_last.elapsed
        /\ lp_n < MaxTicks => ENABLED LoopTick

\* in the second tick every collector raised, the body took longer than the
\* interval, and the data file was written
C22_Witness ==
    /\ lp_n = 2
    /\ {"collect_cpu", "cpu_stats", "process_status", "top_procs", "gpu_mem"} \subseteq lp_last.failed
    /\ lp_last.written
    /\ lp_last.elapsed > DEFAULT_INTERVAL
    /\ lp_last.to_sleep = 0

\* C29: whenever net_io_rates (disk_io_rates) computes a rate from the raw
\* counters, the snapshot it subtracts was taken in the tick at whose end
\* prev_time was set, so that the byte delta and the time delta cover the
\* same interval.
C29_SameBaseline ==
    /\ lp_last.net # None => Val(lp_last.net).bytes_since = Val(lp_last.net).time_since
    /\ lp_last.disk # None => Val(lp_last.disk).bytes_since = Val(lp_last.disk).time_since

----------------------------------------------------------------------------
(* Claims about a reader whose native library did not load, checked under
   SpecRead *)

\* the snapshot b with nothing on the native side
NoNative(b) == [b EXCEPT !.Hardware = <<>>, !.hardware_raises = FALSE]

\* what the operation op answers for self on the snapshot b
Answer(op, self, b) ==
    CASE op = "cpu_stats" -> cpu_stats(self, b)
      [] op = "gpu_mem_used_total_bytes" -> gpu_mem_used_total_bytes(self, b)
      [] op = "net_io_rates" -> net_io_rates(self, b)
      [] op = "disk_io_rates" -> disk_io_rates(self, b)
      [] op = "cpu_effective_freq_mhz" -> cpu_effective_freq_mhz(self, b)
      [] op = "list_temp_candidates" -> list_temp_candidates_x(self, b)
      [] op = "list_fan_candidates" -> list_fan_candidates_x(self, b)
      [] op = "read_temp_c" -> read_temp_c(self, b)
      [] op = "read_fan_rpm" -> read_fan_rpm(self, b)

----------------------------------------------------------------------------
(* Claims about the cold start as a whole, checked under Spec *)

\* the positions of a list that hold a LHM candidate with a CPU keyword in its
\* name and a plausible value
KeywordLhm(ts) ==
    { i \in DOMAIN ts : /\ ts[i].type = "LHM"
                        /\ AnyKeyword(lower(ts[i].name), cpu_keywords)
                        /\ okv_temp(ts[i].value) }

\* the positions that hold a plausible thermal zone candidate
PlausibleZone(ts) ==
    { i \in DOMAIN ts : ts[i].type = "WMI_ACPI" /\ okv_temp(ts[i].value) }

\* C24: a start with no file and no terminal whose temperature list holds a
\* LHM candidate with a CPU keyword and a plausible value (55.0) next to a
\* plausible WMI candidate pins the LHM candidate and calls _save_config; when
\* the write succeeds the file holds that selection; a later process that
\* loads the file holds exactly the selections written and lists no
\* candidates, runs no picker and writes nothing.
C24_ColdStartEndToEnd ==
    /\ ( /\ pc = "ready"
         /\ trace.headless
         /\ trace.start_file = "absent"
         /\ KeywordLhm(trace.temp_cands) # {}
         /\ PlausibleZone(trace.temp_cands) # {} )
       => /\ \E i \in KeywordLhm(trace.temp_cands) : sel_temp = Some(trace.temp_cands[i])
          /\ trace.picker_ran /\ ~trace.prompted
          /\ trace.save_called
          /\ ~trace.save_failed =>
               /\ written = Some(<<sel_temp, sel_fan>>)
               /\ _load_config(file) = [ok |-> TRUE, sel_temp |-> sel_temp, sel_fan |-> sel_fan]
    /\ (trace.loaded /\ written # None)
       => /\ sel_temp = Val(written)[1]
          /\ sel_fan = Val(written)[2]
          /\ ~trace.temp_listed /\ ~trace.fan_listed
          /\ ~trace.picker_ran /\ ~trace.prompted /\ ~trace.save_called

\* a later process has loaded the LHM selection of value 55.0 that was
\* written, and has gone through a tick in which the backend shows that
\* sensor and a thermal zone
C24_Witness ==
    /\ trace.loaded
    /\ written = Some(<<sel_temp, sel_fan>>)
    /\ sel_temp # None
    /\ Val(sel_temp).type = "LHM"
    /\ Val(sel_temp).value = Some(5500)
    /\ tick.done
    /\ Val(sel_temp).id \in tick.temp_ids
    /\ \E id \in tick.temp_ids : id # Val(sel_temp).id

\* C25: in a cold start the temperature candidates are listed and the
\* temperature selection fixed before the fan candidates are listed; the fan
\* step runs also when the temperature selection ended absent; once the
\* procedure is over the file has been written once, after both selections
\* were fixed, and holds both; the file never holds this run's temperature
\* selection without this run's fan selection.
C25_SelectionOrder ==
    (~trace.loaded /\ trace.temp_listed) =>
        /\ trace.fan_listed => trace.temp_fixed
        /\ trace.fan_fixed => trace.fan_listed
        /\ trace.save_called => trace.temp_fixed /\ trace.fan_fixed
        /\ (trace.save_called /\ ~trace.save_failed) =>
               _load_config(file) = [ok |-> TRUE, sel_temp |-> sel_temp, sel_fan |-> sel_fan]
        /\ pc = "ready" => /\ trace.temp_fixed
                           /\ trace.fan_listed
                           /\ trace.fan_fixed
                           /\ trace.save_called

----------------------------------------------------------------------------
(* Claims about the sanity bounds, checked under SpecRead *)

\* reading some sensor of the tree raises
AnySensorRaises(b) ==
    \E n \in DOMAIN b.Hardware : \E k \in DOMAIN b.Hardware[n].Sensors :
        b.Hardware[n].Sensors[k].raises

\* the Values the top-level sensors with the identifier ident show
ShownValues(b, ident) ==
    UNION { { b.Hardware[n].Sensors[k].Value :
                k \in { k \in DOMAIN b.Hardware[n].Sensors :
                          b.Hardware[n].Sensors[k].Identifier = ident } } :
            n \in { n \in DOMAIN b.Hardware : ~b.Hardware[n].sensors_raise } }

\* what the pinned selection sel must read on the snapshot b when its source
\* is there: the sensor's Value, or the figure raw of the first WMI record
\* when the selection names record 0
Fresh(self, b, sel, wmi_type, items, items_raise, raw) ==
    IF sel.type = "LHM" /\ self.lhm_ok /\ ~b.hardware_raises /\ ~AnySensorRaises(b)
    THEN ShownValues(b, sel.id)
    ELSE IF /\ sel.type = wmi_type /\ self.wmi /\ ~items_raise /\ items # <<>>
            /\ sel.id \in {<<"W","M","I",":","A","C","P","I",":","0">>, <<"W","M","I",":","F","A","N",":","0">>}
    THEN {raw}
    ELSE {}

FreshTemp(self, b) ==
    IF IsNone(self.sel_temp) THEN {}
    ELSE Fresh(self, b, Val(self.sel_temp), "WMI_ACPI", b.zones, b.zones_raise,
               IF b.zones = <<>> \/ IsNone(zone_raw(b.zones[1])) THEN None
               ELSE Some(celsius(Val(zone_raw(b.zones[1])))))

FreshFan(self, b) ==
    IF IsNone(self.sel_fan) THEN {}
    ELSE Fresh(self, b, Val(self.sel_fan), "WMI_FAN", b.wfans, b.wfans_raise,
               IF b.wfans = <<>> \/ IsNone(fan_raw(b.wfans[1])) THEN None
               ELSE Some(Val(fan_raw(b.wfans[1])) * 100))

\* C26: read_temp_c and read_fan_rpm return the pinned sensor's freshly
\* observed value as it is, a value of 0 or outside the sanity bounds
\* included; cpu_stats reports a pinned value that is present and consults
\* the fallback tiers of a quantity only when the pinned read is absent.
C26_PinnedUnfiltered ==
    /\ rq_op = "read_temp_c" => \A v \in FreshTemp(rq_self, rq_b) : rq_out = v
    /\ rq_op = "read_fan_rpm" => \A v \in FreshFan(rq_self, rq_b) : rq_out = v
    /\ rq_op = "cpu_stats" =>
         /\ \A v \in FreshTemp(rq_self, rq_b) : rq_out.rd_temp = v
         /\ \A v \in FreshFan(rq_self, rq_b) : rq_out.rd_fan = v
         /\ rq_out.rd_temp # None =>
              /\ rq_out.package_temp_c = rq_out.rd_temp
              /\ rq_out.queried \cap {"cpu_package_temp_c", "_cpu_package_temp_wmi"} = {}
         /\ rq_out.rd_fan # None =>
              /\ rq_out.fan_rpm = rq_out.rd_fan
              /\ rq_out.queried \cap {"cpu_fan_rpm", "_cpu_fan_rpm_wmi"} = {}

\* the pinned LHM sensors read 120.0 degrees and 0 RPM; cpu_stats reports
\* both and asks no fallback, although the thermal zone and the Win32_Fan
\* record hold plausible figures
C26_Witness ==
    /\ rq_op = "cpu_stats"
    /\ rq_self.lhm_ok /\ rq_self.wmi
    /\ rq_out.rd_temp = Some(12000)
    /\ rq_out.package_temp_c = Some(12000)
    /\ rq_out.rd_fan = Some(0)
    /\ rq_out.fan_rpm = Some(0)
    /\ rq_out.queried = {}
    /\ _cpu_package_temp_wmi(rq_self, rq_b) # None
    /\ _cpu_fan_rpm_wmi(rq_self, rq_b) # None

\* C30: when the pinned source yields absent for a quantity, the
\* package_temp_c cpu_stats returns is absent or lies in [0.0, 120.0), and the
\* fan_rpm it returns is absent or lies in [1.0, 20000.0).
C30_FallbackBounds ==
    rq_op = "cpu_stats" =>
        /\ rq_out.rd_temp = None =>
             \/ rq_out.package_temp_c = None
             \/ (0 <= Val(rq_out.package_temp_c) /\ Val(rq_out.package_temp_c) < 12000)
        /\ rq_out.rd_fan = None =>
             \/ rq_out.fan_rpm = None
             \/ (100 <= Val(rq_out.fan_rpm) /\ Val(rq_out.fan_rpm) < 2000000)

\* nothing is pinned, the native sensors read 120.0 degrees and 20000 RPM and
\* are passed over, and the WMI tier supplies 119.95 degrees and the mean of
\* two plausible fan records
C30_Witness ==
    /\ rq_op = "cpu_stats"
    /\ rq_self.sel_temp = None /\ rq_self.sel_fan = None
    /\ rq_self.lhm_ok /\ rq_self.wmi
    /\ Some(12000) \in ShownValues(rq_b, ID_CpuTemp)
    /\ Some(2000000) \in ShownValues(rq_b, ID_SioFan)
    /\ rq_out.queried = {"cpu_package_temp_c", "cpu_fan_rpm",
                         "_cpu_package_temp_wmi", "_cpu_fan_rpm_wmi"}
    /\ rq_out.package_temp_c = Some(11995)
    /\ rq_out.fan_rpm = Some(1000000)

----------------------------------------------------------------------------
(* Claims about process_status, checked under SpecRead *)

\* the pattern of the query q is in the path of the process p
Matches(q, p) == ~p.raises /\ Contains(lower(p.exe), q.pat)

\* the process p belongs to the k-th query: the first one that matches it
Attributed(queries, p, k) ==
    Matches(queries[k], p) /\ \A j \in 1..(k - 1) : ~Matches(queries[j], p)

RECURSIVE RunSum(_, _, _)
\* over the runs of a table, the number of processes that belong to query k
RunSum(queries, runs, k) ==
    IF runs = <<>> THEN 0
    ELSE (IF Attributed(queries, Head(runs).p, k) THEN Head(runs).n ELSE 0)
         + RunSum(queries, Tail(runs), k)

RECURSIVE RunTotal(_)
\* the number of processes of a table
RunTotal(runs) == IF runs = <<>> THEN 0 ELSE Head(runs).n + RunTotal(Tail(runs))

\* the position of the process that takes query k's count past AbortAbove
StopAt(queries, runs, k) ==
    LET r == CHOOSE r \in DOMAIN runs :
                 /\ Attributed(queries, runs[r].p, k)
                 /\ RunSum(queries, SubSeq(runs, 1, r - 1), k) <= AbortAbove
                 /\ RunSum(queries, SubSeq(runs, 1, r), k) > AbortAbove
    IN RunTotal(SubSeq(runs, 1, r - 1))
       + (AbortAbove + 1 - RunSum(queries, SubSeq(runs, 1, r - 1), k))

RECURSIVE InstanceSum(_)
InstanceSum(result) ==
    IF result = <<>> THEN 0 ELSE Head(result).instances + InstanceSum(Tail(result))

\* C27: each scanned process is attributed to at most one query, the first in
\* query order whose pattern is in its path; so, when no query's count passes
\* the abort threshold, the result has one entry per query in query order
\* whose instances are the processes attributed to that query, and the
\* instances of all entries sum to at most the number of scanned processes.
C27_FirstMatchAttribution ==
    (rq_op = "process_status" /\ rq_self.process_queries # <<>>) =>
        LET queries == rq_self.process_queries
            runs == rq_b.processes
        IN (\A k \in DOMAIN queries : RunSum(queries, runs, k) <= AbortAbove) =>
             /\ Len(rq_out.result) = Len(queries)
             /\ \A k \in DOMAIN queries :
                  /\ rq_out.result[k].name.disp = queries[k].disp
                  /\ rq_out.result[k].instances = RunSum(queries, runs, k)
             /\ InstanceSum(rq_out.result) <= RunTotal(runs)

\* C28: as soon as one query's count passes AbortAbove the scan stops, no
\* further process is examined, and the result is the single entry of that
\* query marked as terminated; when no query's count passes AbortAbove, the
\* scan completes and the full result is returned, in which exactly the
\* queries whose count passes WarnAbove are marked.
C28_MatchExplosionGuard ==
    (rq_op = "process_status" /\ rq_self.process_queries # <<>>) =>
        LET queries == rq_self.process_queries
            runs == rq_b.processes
            over == { k \in DOMAIN queries : RunSum(queries, runs, k) > AbortAbove }
        IN IF over # {}
           THEN LET k == CHOOSE k \in over :
                           \A j \in over : StopAt(queries, runs, k) <= StopAt(queries, runs, j)
                IN /\ rq_out.examined = StopAt(queries, runs, k)
                   /\ rq_out.result =
                        << [name |-> NameDisplay(queries[k].disp, "too_many_terminated",
                                                 Some(AbortAbove + 1)),
                            instances |-> AbortAbove + 1] >>
           ELSE /\ rq_out.examined = RunTotal(runs)
                /\ Len(rq_out.result) = Len(queries)
                /\ \A k \in DOMAIN queries :
                     rq_out.result[k].name =
                        IF RunSum(queries, runs, k) > WarnAbove
                        THEN NameDisplay(queries[k].disp, "too_many",
                                         Some(RunSum(queries, runs, k)))
                        ELSE NameDisplay(queries[k].disp, "plain", None)

====
